---- MODULE Spec2Model ----
(***************************************************************************)
(* A model of the desktop backend of handleui/forks (src-tauri/src):        *)
(*   git.rs      RefValidator (validate_git_ref), RepoCache, the git        *)
(*               commands built on them;                                    *)
(*   git_rpc.rs  the line-delimited request/response server;                *)
(*   watch.rs    one watch and its debouncing worker; the registry of       *)
(*               watches under concurrent add_watch, remove_watch and       *)
(*               remove_all calls.                                          *)
(*                                                                         *)
(* Strings that the code inspects character by character (ref names) are    *)
(* sequences of Unicode code points; paths are sequences of components.     *)
(***************************************************************************)
EXTENDS Integers, Sequences, FiniteSets, TLC

VARIABLES
  name,          \* RefValidator: the string handed to validate_git_ref
  verdict,       \* RefValidator: what validate_git_ref returned for it ("none" before the call)
  now,           \* the monotonic clock: the value of the latest Instant::now()
  cache,         \* RepoCache.entries: canonical path -> CachedRepo [repo, last_used]
  repos,         \* the repositories on disk: repository id -> its references and worktrees
  last,          \* the latest git command: its name, arguments, native calls and result
  fill,          \* history: the get_or_open calls so far, while they fill an empty cache
  conns,         \* git_rpc: connection slot -> the connection handle_stream is serving
  listener,      \* git_rpc: the accept loop: whether it runs, the accepts that failed
  server,        \* git_rpc: RPC_SOCKET_PATH, the socket file, and the calls that start the server
  queue,         \* watch: the events in the channel of the worker, oldest first
  senders,       \* watch: TRUE while a Sender of the channel is alive
  config,        \* watch: the WorkerConfig of the worker
  notified,      \* watch: the number of events the watchers have sent
  wpc,           \* watch: where the worker is: "none", "recv", "wait" or "done"
  waited,        \* watch: the time the current recv_timeout has been waiting
  pending_paths, \* watch: the worker's pending_paths
  pending_kinds, \* watch: the worker's pending_kinds
  emitted,       \* watch: the payloads given to app.emit, in order
  window,        \* history: what the worker received since it last blocked in recv()
  registry,      \* WatchManager.inner: next_id, entries (watch id -> WatchEntry) and
                 \* the add_watch call that holds the mutex (0: none)
  calls,         \* add_watch call -> where it is and what its locals hold
  workers,       \* add_watch call -> the worker thread it spawned
  history        \* history: the ids minted, in order, and what remove_all found

refVars == <<name, verdict>>
gitVars == <<now, cache, repos, last, fill>>
rpcVars == <<conns, listener, server>>
watchVars ==
  <<config, notified, queue, senders, wpc, waited, pending_paths, pending_kinds,
    emitted, window, registry, calls, workers, history>>
regVars == <<calls, workers, history>>
vars == <<refVars, gitVars, rpcVars, watchVars>>

(***************************************************************************)
(* Bounds of the model.                                                     *)
(***************************************************************************)
\* Ref names of every length up to MaxNameLen over RefAlphabet are validated.
MaxNameLen == 3

\* The clock is read while it is at most MaxTime.
MaxTime == 8

\* The connection slots of the RPC server, the lines a client sends on one
\* connection and the lines that wait unread on one.
MaxConns == 1
MaxLines == 3
MaxBuf == 2

\* The connections served at once when several are, and the accepts that fail.
MaxServed == 2
MaxStarts == 2
MaxAcceptFailures == 2

\* The events the watchers send to the worker of a watch.
MaxEvents == 4

\* watch.rs, scaled: the debounce in ticks of the wait (50, 150 and 2000 ms in
\* the code) and the capacity of pending_paths (10,000 in the code).
MIN_DEBOUNCE_MS == 1
DEFAULT_DEBOUNCE_MS == 2
MAX_DEBOUNCE_MS == 3
MAX_PENDING_PATHS == 3

\* The paths given to the filter have up to MaxPathLen components.
MaxPathLen == 4

\* The add_watch calls that run, the paths of a git directory that exist, and
\* the events the watchers of one call send.
MaxAdds == 2
MaxGitPaths == 1
MaxNotified == 2

(***************************************************************************)
(* git.rs: RefValidator                                                     *)
(***************************************************************************)
\* The length limit of validate_git_ref (git.rs:106), compared with str::len().
MaxRefBytes == 256

\* GIT_REF_FORBIDDEN: space ~ ^ : ? * [ ] \ @ {
GIT_REF_FORBIDDEN == {32, 126, 94, 58, 63, 42, 91, 93, 92, 64, 123}

\* The number of bytes of code point c in UTF-8: str::len() counts bytes.
Utf8Len(c) == IF c < 128 THEN 1 ELSE IF c < 2048 THEN 2 ELSE IF c < 65536 THEN 3 ELSE 4

\* str::len(): the bytes of the first half and of the second half of the
\* string (halving keeps the evaluation shallow on long names).
RECURSIVE ByteLen(_)
ByteLen(s) ==
  IF Len(s) = 0 THEN 0
  ELSE IF Len(s) = 1 THEN Utf8Len(s[1])
  ELSE ByteLen(SubSeq(s, 1, Len(s) \div 2)) + ByteLen(SubSeq(s, Len(s) \div 2 + 1, Len(s)))

\* str::starts_with, str::ends_with, str::contains for a pattern string.
StartsWith(s, pat) == Len(s) >= Len(pat) /\ SubSeq(s, 1, Len(pat)) = pat
EndsWith(s, pat) == Len(s) >= Len(pat) /\ SubSeq(s, Len(s) - Len(pat) + 1, Len(s)) = pat
Contains(s, pat) == \E i \in 1..(Len(s) - Len(pat) + 1) : SubSeq(s, i, i + Len(pat) - 1) = pat

\* str::split(sep): the components between the separators, in order; the empty
\* string yields one empty component, and adjacent separators an empty one.
FirstSep(s, sep) ==
  CHOOSE i \in 1..Len(s) : s[i] = sep /\ \A j \in 1..(i - 1) : s[j] # sep

RECURSIVE Split(_, _)
Split(s, sep) ==
  IF \A i \in 1..Len(s) : s[i] # sep THEN <<s>>
  ELSE <<SubSeq(s, 1, FirstSep(s, sep) - 1)>>
       \o Split(SubSeq(s, FirstSep(s, sep) + 1, Len(s)), sep)

\* The strings of the patterns the validator looks for.
StrDash == <<45>>
StrDot == <<46>>
StrDotLock == <<46, 108, 111, 99, 107>>
StrSlashSlash == <<47, 47>>
StrAtBrace == <<64, 123>>
ChSlash == <<47>>[1]

\* validate_git_ref without the per-component check: the fault a validator that
\* forgot the split('/') loop would have.
validate_git_ref_no_components(s) ==
  IF s = <<>> \/ ByteLen(s) > MaxRefBytes THEN "invalid ref: empty or too long"
  ELSE IF StartsWith(s, StrDash) THEN "invalid ref: starts with dash"
  ELSE IF EndsWith(s, StrDotLock) THEN "invalid ref: ends with .lock"
  ELSE IF Contains(s, StrSlashSlash) THEN "invalid ref: contains consecutive slashes"
  ELSE IF Contains(s, StrAtBrace) THEN "invalid ref: contains @{"
  ELSE IF \E i \in 1..Len(s) : s[i] <= 31 \/ s[i] = 127
    THEN "invalid ref: contains control character"
  ELSE IF \E i \in 1..Len(s) : s[i] \in GIT_REF_FORBIDDEN
    THEN "invalid ref: contains forbidden character"
  ELSE "ok"

\* validate_git_ref with the length taken in characters (chars().count()).
validate_git_ref_char_count(s) ==
  IF s = <<>> \/ Len(s) > MaxRefBytes THEN "invalid ref: empty or too long"
  ELSE IF StartsWith(s, StrDash) THEN "invalid ref: starts with dash"
  ELSE IF EndsWith(s, StrDotLock) THEN "invalid ref: ends with .lock"
  ELSE IF Contains(s, StrSlashSlash) THEN "invalid ref: contains consecutive slashes"
  ELSE IF Contains(s, StrAtBrace) THEN "invalid ref: contains @{"
  ELSE IF \E i \in 1..Len(s) : s[i] <= 31 \/ s[i] = 127
    THEN "invalid ref: contains control character"
  ELSE IF \E i \in 1..Len(s) : s[i] \in GIT_REF_FORBIDDEN
    THEN "invalid ref: contains forbidden character"
  ELSE IF LET components == Split(s, ChSlash)
          IN \E k \in 1..Len(components) :
               \/ components[k] = <<>>
               \/ StartsWith(components[k], StrDot)
               \/ EndsWith(components[k], StrDot)
    THEN "invalid ref: invalid path component"
  ELSE "ok"

\* validate_git_ref: "ok" for Ok(()), else the message of the first failing check.
validate_git_ref(s) ==
  IF s = <<>> \/ ByteLen(s) > MaxRefBytes THEN "invalid ref: empty or too long"
  ELSE IF StartsWith(s, StrDash) THEN "invalid ref: starts with dash"
  ELSE IF EndsWith(s, StrDotLock) THEN "invalid ref: ends with .lock"
  ELSE IF Contains(s, StrSlashSlash) THEN "invalid ref: contains consecutive slashes"
  ELSE IF Contains(s, StrAtBrace) THEN "invalid ref: contains @{"
  ELSE IF \E i \in 1..Len(s) : s[i] <= 31 \/ s[i] = 127
    THEN "invalid ref: contains control character"
  ELSE IF \E i \in 1..Len(s) : s[i] \in GIT_REF_FORBIDDEN
    THEN "invalid ref: contains forbidden character"
  ELSE IF LET components == Split(s, ChSlash)
          IN \E k \in 1..Len(components) :
               \/ components[k] = <<>>
               \/ StartsWith(components[k], StrDot)
               \/ EndsWith(components[k], StrDot)
    THEN "invalid ref: invalid path component"
  ELSE "ok"

\* The characters the bounded names are built from: a . / - @ { ~ space, the
\* control characters US (0x1F) and DEL (0x7F), and the two-byte e-acute.
RefAlphabet == {97, 46, 47, 45, 64, 123, 126, 32, 31, 127, 233}

RECURSIVE StringsUpTo(_)
StringsUpTo(n) ==
  IF n = 0 THEN {<<>>}
  ELSE LET shorter == StringsUpTo(n - 1)
       IN shorter \cup {Append(s, c) : s \in {t \in shorter : Len(t) = n - 1}, c \in RefAlphabet}

\* n copies of the code point c.
Repeat(c, n) == [i \in 1..n |-> c]

\* "feature/x" "-evil" "a/.git" "refs~1", the names around ".lock", a name with
\* each forbidden character and with NUL, TAB and U+0080, and names around the
\* length limit, of one-byte and of two-byte characters.
NamedRefs ==
  { <<102, 101, 97, 116, 117, 114, 101, 47, 120>>,
    <<45, 101, 118, 105, 108>>,
    <<97, 47, 46, 103, 105, 116>>,
    <<114, 101, 102, 115, 126, 49>>,
    <<97>> \o StrDotLock, StrDotLock, <<97>> \o StrDotLock \o <<97>>,
    <<97, 47, 98>> \o StrDotLock, <<97, 46, 108, 111, 99>> }
  \cup {<<97, c, 97>> : c \in GIT_REF_FORBIDDEN \cup {0, 9, 128}}
  \cup {Repeat(97, n) : n \in {MaxRefBytes - 1, MaxRefBytes, MaxRefBytes + 1}}
  \cup {Repeat(233, n) : n \in {MaxRefBytes \div 2, MaxRefBytes \div 2 + 1, MaxRefBytes}}

RefInputs == StringsUpTo(MaxNameLen) \cup NamedRefs

\* A caller hands a name to the validator.
Validate ==
  /\ verdict = "none"
  /\ verdict' = validate_git_ref(name)
  /\ UNCHANGED <<name, gitVars, rpcVars, watchVars>>

(***************************************************************************)
(* Values: Option, Result and the values the commands return                *)
(***************************************************************************)
None == <<>>
Some(v) == <<v>>
IsSome(o) == o # <<>>
Unwrap(o) == o[1]
\* Option<bool>::unwrap_or(false)
UnwrapOrFalse(o) == IF o = <<>> THEN FALSE ELSE o[1]

VUnit == [t |-> "unit", v |-> 0]
VNull == [t |-> "null", v |-> 0]
VBool(b) == [t |-> "bool", v |-> b]
VStr(str) == [t |-> "str", v |-> str]
VPath(path) == [t |-> "path", v |-> path]
VList(items) == [t |-> "list", v |-> items]
VRepo(i) == [t |-> "repo", v |-> i]

Ok(v) == [ok |-> TRUE, val |-> v, err |-> ""]
Err(e) == [ok |-> FALSE, val |-> VNull, err |-> e]

(***************************************************************************)
(* The file system the commands see.  A path is <<kind, n>>:                *)
(*   <<"repo", i>>    the working directory of repository i (canonical)     *)
(*   <<"link", i>>    a symbolic link to <<"repo", i>>                      *)
(*   <<"sub", i>>     a directory inside the working directory of i         *)
(*   <<"wt", k>>      the directory of linked worktree k, which exists      *)
(*                    while a repository has worktree k registered          *)
(*   <<"plain", 0>>   a directory outside every repository                  *)
(*   <<"missing", 0>> a path that does not exist                            *)
(* rs is the state of the repositories (the variable repos).                *)
(***************************************************************************)
\* The source sets REPO_CACHE_TTL_SECS = 30 (git.rs:17) and REPO_CACHE_MAX_SIZE
\* = 16 (git.rs:18); the cache code reads them only through these two names, and
\* the model runs it with a shorter TTL and a smaller capacity.
REPO_CACHE_TTL_SECS == 5
REPO_CACHE_MAX_SIZE == 3

RepoIds == 1..(REPO_CACHE_MAX_SIZE + 1)
WorktreeIds == {1, 2}

\* A repository handle: the repository and the working tree it was opened at
\* (0: the main working directory, k: linked worktree k).
Handle(i, k) == [id |-> i, wt |-> k]
Handles == {Handle(i, k) : i \in RepoIds, k \in {0} \cup WorktreeIds}

WorktreeOwners(rs, k) == {i \in DOMAIN rs : k \in DOMAIN rs[i].worktrees}
WorktreeOwner(rs, k) == CHOOSE i \in WorktreeOwners(rs, k) : TRUE

PathExists(rs, path) ==
  /\ path[1] # "missing"
  /\ path[1] = "wt" => WorktreeOwners(rs, path[2]) # {}

\* std::fs::canonicalize: fails on a missing path, resolves a link.
canonicalize(rs, path) ==
  IF ~PathExists(rs, path) THEN Err("No such file or directory (os error 2)")
  ELSE IF path[1] = "link" THEN Ok(VPath(<<"repo", path[2]>>))
  ELSE Ok(VPath(path))

\* Repository::open: the path itself must be a repository or a linked worktree.
RepositoryOpen(rs, path) ==
  IF path[1] \in {"repo", "link"} THEN Ok(VRepo(Handle(path[2], 0)))
  ELSE IF path[1] = "wt" /\ PathExists(rs, path)
    THEN Ok(VRepo(Handle(WorktreeOwner(rs, path[2]), path[2])))
  ELSE Err("could not find repository")

\* Repository::discover: the path or one of its ancestors is a repository.
RepositoryDiscover(rs, path) ==
  IF path[1] = "sub" THEN Ok(VRepo(Handle(path[2], 0))) ELSE RepositoryOpen(rs, path)

\* Repository::open(p).or_else(|_| Repository::discover(p))
OpenOrDiscover(rs, path) ==
  IF RepositoryOpen(rs, path).ok THEN RepositoryOpen(rs, path) ELSE RepositoryDiscover(rs, path)

(***************************************************************************)
(* git.rs: RepoCache.  entries maps a canonical path to its CachedRepo,     *)
(* [repo, last_used].                                                       *)
(***************************************************************************)
Restrict(f, S) == [x \in S |-> f[x]]
Put(f, k, v) == [x \in DOMAIN f \cup {k} |-> IF x = k THEN v ELSE f[x]]

evict_stale_keeping_ttl(entries, t, ttl) ==
  Restrict(entries, {p \in DOMAIN entries : t - entries[p].last_used <= ttl})

\* RepoCache::evict_stale: retain the entries idle for less than the ttl.
evict_stale(entries, t, ttl) ==
  Restrict(entries, {p \in DOMAIN entries : t - entries[p].last_used < ttl})

\* The keys min_by_key may return: HashMap iterates in an unspecified order and
\* min_by_key returns the first minimum of that order.
OldestKeys(entries) ==
  {p \in DOMAIN entries :
     \A q \in DOMAIN entries : entries[p].last_used <= entries[q].last_used}

evict_newest(entries) ==
  {Restrict(entries, DOMAIN entries \ {k}) :
     k \in {p \in DOMAIN entries :
              \A q \in DOMAIN entries : entries[p].last_used >= entries[q].last_used}}

\* RepoCache::evict_oldest: the caches it may leave (one per possible oldest key).
evict_oldest(entries) ==
  IF DOMAIN entries = {} THEN {entries}
  ELSE {Restrict(entries, DOMAIN entries \ {k}) : k \in OldestKeys(entries)}

capacity_loop_off_by_one(entries) ==
  IF Cardinality(DOMAIN entries) > REPO_CACHE_MAX_SIZE
  THEN evict_oldest(entries) ELSE {entries}

\* while self.entries.len() >= REPO_CACHE_MAX_SIZE { self.evict_oldest(); }
RECURSIVE capacity_loop(_)
capacity_loop(entries) ==
  IF Cardinality(DOMAIN entries) >= REPO_CACHE_MAX_SIZE
  THEN UNION {capacity_loop(e) : e \in evict_oldest(entries)}
  ELSE {entries}

\* get_or_open that canonicalizes the path before it evicts anything.
get_or_open_canonicalize_first(entries, rs, path, t) ==
  LET swept == evict_stale(entries, t, REPO_CACHE_TTL_SECS)
      canonical == canonicalize(rs, path)
      key == canonical.val.v
      opened == OpenOrDiscover(rs, key)
  IN IF ~canonical.ok
     THEN {[entries |-> entries, res |-> Err(canonical.err), native |-> <<>>]}
     ELSE { IF key \notin DOMAIN e
              THEN IF ~opened.ok
                   THEN [entries |-> e, res |-> Err(opened.err),
                         native |-> <<"Repository::open">>]
                   ELSE [entries |-> Put(e, key, [repo |-> opened.val.v, last_used |-> t]),
                         res |-> opened, native |-> <<"Repository::open">>]
            ELSE [entries |-> Put(e, key, [repo |-> e[key].repo, last_used |-> t]),
                  res |-> Ok(VRepo(e[key].repo)), native |-> <<>>]
            : e \in capacity_loop(swept) }

\* RepoCache::get_or_open at instant t: the outcomes [entries, res, native], res
\* the repository handle (Ok) or the error string, native the native calls made.
get_or_open(entries, rs, path, t) ==
  LET swept == evict_stale(entries, t, REPO_CACHE_TTL_SECS)
      canonical == canonicalize(rs, path)
      key == canonical.val.v
      opened == OpenOrDiscover(rs, key)
  IN { IF ~canonical.ok
         THEN [entries |-> e, res |-> Err(canonical.err), native |-> <<>>]
       ELSE IF key \notin DOMAIN e
         THEN IF ~opened.ok
              THEN [entries |-> e, res |-> Err(opened.err), native |-> <<"Repository::open">>]
              ELSE [entries |-> Put(e, key, [repo |-> opened.val.v, last_used |-> t]),
                    res |-> opened, native |-> <<"Repository::open">>]
         ELSE [entries |-> Put(e, key, [repo |-> e[key].repo, last_used |-> t]),
               res |-> Ok(VRepo(e[key].repo)), native |-> <<>>]
       : e \in capacity_loop(swept) }

(***************************************************************************)
(* The repositories.  A commit is a number and history is linear: commit a  *)
(* is an ancestor of commit b exactly when a <= b.  A repository has its    *)
(* branches (heads), HEAD, refs/remotes/origin/HEAD, the status entries of   *)
(* its main working directory and its linked worktrees.                     *)
(***************************************************************************)
BrMain == <<109>>                  \* "m"
BrDev == <<100>>                   \* "d"
BrFeature == <<102, 47, 120>>      \* "f/x"
BrNew == <<110>>                   \* "n"
BrDashE == <<45, 101>>             \* "-e"
BrDotG == <<97, 47, 46, 103>>      \* "a/.g"
BrHEAD == <<72, 69, 65, 68>>       \* "HEAD"

StatusEntry(path, bits) == [path |-> path, bits |-> bits]

\* A repository as cloned: m checked out at commit 1, f/x one commit ahead of
\* it, d merged.  Repository 1 has one modified and one conflicted file and a
\* linked worktree 1 on d with an untracked file; repository 2 has
\* refs/remotes/origin/HEAD -> origin/d; repository 3 has a detached HEAD.
InitRepo(i) ==
  [ heads |-> (BrMain :> 1 @@ BrFeature :> 2 @@ BrDev :> 1),
    head |-> IF i = 3 THEN [sym |-> FALSE, branch |-> <<>>, commit |-> 1]
             ELSE [sym |-> TRUE, branch |-> BrMain, commit |-> 0],
    originHead |-> IF i = 2 THEN Some(BrDev) ELSE None,
    status |-> IF i = 1
               THEN << StatusEntry("a.txt", {"WT_MODIFIED"}),
                       StatusEntry("b.txt", {"CONFLICTED", "WT_MODIFIED"}) >>
               ELSE <<>>,
    worktrees |-> IF i = 1
                  THEN (1 :> [branch |-> BrDev, locked |-> FALSE,
                              status |-> <<StatusEntry("c.txt", {"WT_NEW"})>>])
                  ELSE << >> ]

\* The HEAD of the working tree a handle was opened at.
HeadOf(rs, h) ==
  IF h.wt = 0 THEN rs[h.id].head
  ELSE [sym |-> TRUE, branch |-> rs[h.id].worktrees[h.wt].branch, commit |-> 0]

\* Repository::head(): the reference HEAD resolves to; an error when HEAD names
\* a branch that does not exist (unborn).
RepoHead(rs, h) ==
  LET head == HeadOf(rs, h)
  IN IF head.sym
     THEN IF head.branch \in DOMAIN rs[h.id].heads
          THEN Ok([name |-> <<"refs/heads/", head.branch>>,
                   shorthand |-> head.branch,
                   target |-> rs[h.id].heads[head.branch]])
          ELSE Err("reference 'refs/heads/...' not found")
     ELSE Ok([name |-> <<"HEAD", <<>> >>, shorthand |-> BrHEAD, target |-> head.commit])

\* branch_from_head: the branch HEAD names, None when detached or unborn.
branch_from_head(rs, h) ==
  IF ~RepoHead(rs, h).ok THEN None
  ELSE IF RepoHead(rs, h).val.shorthand = BrHEAD THEN None
  ELSE Some(RepoHead(rs, h).val.shorthand)

\* Repository::statuses of the working tree of a handle.
StatusesOf(rs, h) ==
  IF h.wt = 0 THEN rs[h.id].status ELSE rs[h.id].worktrees[h.wt].status

\* Repository::revparse_single(spec) peeled to a commit: a branch name or HEAD.
revparse_single(rs, h, spec) ==
  IF spec \in DOMAIN rs[h.id].heads THEN Ok(rs[h.id].heads[spec])
  ELSE IF spec = BrHEAD /\ RepoHead(rs, h).ok THEN Ok(RepoHead(rs, h).val.target)
  ELSE Err("revspec not found")

\* Repository::graph_ahead_behind(a, b): the commits of a that b does not have.
Ahead(a, b) == IF a > b THEN a - b ELSE 0

\* status_to_kind with the check for added ahead of the check for deleted.
status_to_kind_added_before_deleted(bits) ==
  IF "CONFLICTED" \in bits THEN Some("conflicted")
  ELSE IF "INDEX_NEW" \in bits THEN Some("added")
  ELSE IF "INDEX_DELETED" \in bits \/ "WT_DELETED" \in bits THEN Some("deleted")
  ELSE IF "WT_NEW" \in bits THEN Some("untracked")
  ELSE IF "INDEX_RENAMED" \in bits \/ "WT_RENAMED" \in bits THEN Some("renamed")
  ELSE IF "INDEX_TYPECHANGE" \in bits \/ "WT_TYPECHANGE" \in bits THEN Some("typechange")
  ELSE IF "INDEX_MODIFIED" \in bits \/ "WT_MODIFIED" \in bits THEN Some("modified")
  ELSE None

\* status_to_kind: the first kind, in the order of its checks, whose bit is set.
status_to_kind(bits) ==
  IF "CONFLICTED" \in bits THEN Some("conflicted")
  ELSE IF "INDEX_DELETED" \in bits \/ "WT_DELETED" \in bits THEN Some("deleted")
  ELSE IF "INDEX_NEW" \in bits THEN Some("added")
  ELSE IF "WT_NEW" \in bits THEN Some("untracked")
  ELSE IF "INDEX_RENAMED" \in bits \/ "WT_RENAMED" \in bits THEN Some("renamed")
  ELSE IF "INDEX_TYPECHANGE" \in bits \/ "WT_TYPECHANGE" \in bits THEN Some("typechange")
  ELSE IF "INDEX_MODIFIED" \in bits \/ "WT_MODIFIED" \in bits THEN Some("modified")
  ELSE None

(***************************************************************************)
(* git.rs: the commands that go through RepoCache                           *)
(***************************************************************************)
\* The time that may pass between two readings of the clock.  Successive
\* readings are separated by system calls, so they differ.
Elapse == {1, REPO_CACHE_TTL_SECS - 1, REPO_CACHE_TTL_SECS, REPO_CACHE_TTL_SECS + 1}

\* The history of get_or_open calls, kept while every call so far succeeded, on
\* a canonical path not requested before, at most REPO_CACHE_TTL_SECS after the
\* first, and no more than REPO_CACHE_MAX_SIZE + 1 of them were made.
NoFill == [live |-> FALSE, start |-> 0, paths |-> <<>>]

fill_after(f, path, t, res) ==
  LET key == canonicalize(repos, path).val.v
  IN IF /\ f.live
        /\ res.ok
        /\ \A i \in 1..Len(f.paths) : f.paths[i] # key
        /\ Len(f.paths) <= REPO_CACHE_MAX_SIZE
        /\ (f.paths # <<>> => t - f.start <= REPO_CACHE_TTL_SECS)
     THEN [live |-> TRUE, start |-> IF f.paths = <<>> THEN t ELSE f.start,
           paths |-> Append(f.paths, key)]
     ELSE NoFill

Call(op, args, native, result) ==
  [op |-> op, args |-> args, native |-> native, result |-> result]

\* with_cached_repo(path, f): lock the cache, get_or_open, run f on the handle
\* (f is given as its value on every handle).
\* The lock is never poisoned: nothing panics while holding it.
with_cached_repo(op, args, path, f) ==
  \E d \in Elapse :
    /\ now + d <= MaxTime
    /\ \E out \in get_or_open(cache, repos, path, now + d) :
         /\ now' = now + d
         /\ cache' = out.entries
         /\ last' = Call(op, args, out.native,
                         IF out.res.ok THEN f[out.res.val.v] ELSE Err(out.res.err))
         /\ fill' = fill_after(fill, path, now + d, out.res)
    /\ UNCHANGED repos

\* refs/remotes/origin/HEAD without its prefix, else the current branch, else
\* "main" (here m).
default_branch_of(rs, h) ==
  IF IsSome(rs[h.id].originHead) THEN Ok(VStr(Unwrap(rs[h.id].originHead)))
  ELSE IF IsSome(branch_from_head(rs, h)) THEN Ok(VStr(Unwrap(branch_from_head(rs, h))))
  ELSE Ok(VStr(BrMain))

git_default_branch(repo_path) ==
  with_cached_repo("git_default_branch", [repo_path |-> repo_path], repo_path,
                   [h \in Handles |-> default_branch_of(repos, h)])

\* unwrap_or_default: the empty string when there is no branch.
current_branch_of(rs, h) ==
  IF IsSome(branch_from_head(rs, h)) THEN Ok(VStr(Unwrap(branch_from_head(rs, h))))
  ELSE Ok(VStr(<<>>))

git_current_branch(path) ==
  with_cached_repo("git_current_branch", [path |-> path], path,
                   [h \in Handles |-> current_branch_of(repos, h)])

git_branch_exists(repo_path, branch) ==
  LET exists_in(rs, h) == Ok(VBool(branch \in DOMAIN rs[h.id].heads))
      args == [repo_path |-> repo_path, branch |-> branch]
  IN IF validate_git_ref(branch) # "ok"
     THEN /\ last' = Call("git_branch_exists", args, <<>>, Err(validate_git_ref(branch)))
          /\ UNCHANGED <<now, cache, repos, fill>>
     ELSE with_cached_repo("git_branch_exists", args, repo_path,
                           [h \in Handles |-> exists_in(repos, h)])

\* head.target(): None for a symbolic reference; Repository::head() resolves
\* HEAD, so the target is there whenever head() succeeds.
current_commit_of(rs, h) ==
  IF ~RepoHead(rs, h).ok THEN Err(RepoHead(rs, h).err)
  ELSE Ok([t |-> "oid", v |-> RepoHead(rs, h).val.target])

\* git_current_commit on a repository it opens itself.
git_current_commit_uncached(repo_path) ==
  /\ last' = Call("git_current_commit", [repo_path |-> repo_path], <<"open">>,
                  IF OpenOrDiscover(repos, repo_path).ok
                  THEN current_commit_of(repos, OpenOrDiscover(repos, repo_path).val.v)
                  ELSE Err(OpenOrDiscover(repos, repo_path).err))
  /\ UNCHANGED <<now, cache, repos, fill>>

git_current_commit(repo_path) ==
  with_cached_repo("git_current_commit", [repo_path |-> repo_path], repo_path,
                   [h \in Handles |-> current_commit_of(repos, h)])

(***************************************************************************)
(* git.rs: the commands that open the repository themselves (open_repo_at)  *)
(* and change it.  Each is given as its outcome on the repositories rs:      *)
(* [repos, native, result], repos the repositories it leaves, native the     *)
(* git2 calls it made, in order.                                            *)
(***************************************************************************)
Outcome(rs, native, result) == [repos |-> rs, native |-> native, result |-> result]

\* open_repo_at: Repository::open, else Repository::discover, on the path as given.
open_repo_at(rs, path) == OpenOrDiscover(rs, path)

\* The commit repo.head() peels to.
head_commit(rs, h) ==
  IF RepoHead(rs, h).ok THEN Ok(RepoHead(rs, h).val.target) ELSE Err(RepoHead(rs, h).err)

\* Repository::branch(name, commit, force = false)
RepoBranch(rs, h, branch, commit) ==
  IF branch \in DOMAIN rs[h.id].heads
  THEN Err("a reference with that name already exists")
  ELSE Ok([rs EXCEPT ![h.id].heads = Put(@, branch, commit)])

\* Repository::find_reference("refs/heads/<branch>")
find_reference(rs, h, branch) ==
  IF branch \in DOMAIN rs[h.id].heads
  THEN Ok([name |-> <<"refs/heads/", branch>>, target |-> rs[h.id].heads[branch]])
  ELSE Err("reference 'refs/heads/...' not found")

\* Reference::delete
ReferenceDelete(rs, h, branch) ==
  [rs EXCEPT ![h.id].heads = Restrict(@, DOMAIN @ \ {branch})]

\* Repository::reset(commit, Hard): the branch HEAD names (HEAD itself when
\* detached) moves to the commit and the tracked changes of the working tree go;
\* untracked files stay.
Untracked(status) == SelectSeq(status, LAMBDA e : e.bits = {"WT_NEW"})

RepoResetHard(rs, h, commit) ==
  LET head == HeadOf(rs, h)
      moved == IF head.sym THEN [rs EXCEPT ![h.id].heads = Put(@, head.branch, commit)]
               ELSE [rs EXCEPT ![h.id].head.commit = commit]
  IN IF h.wt = 0 THEN [moved EXCEPT ![h.id].status = Untracked(@)]
     ELSE [moved EXCEPT ![h.id].worktrees[h.wt].status = Untracked(@)]

git_create_branch_unchecked_start(rs, repo_path, branch, start_point) ==
  LET opened == open_repo_at(rs, repo_path)
      h == opened.val.v
      commit == IF IsSome(start_point) THEN revparse_single(rs, h, Unwrap(start_point))
                ELSE head_commit(rs, h)
      lookup == IF IsSome(start_point) THEN "revparse_single" ELSE "head"
      made == RepoBranch(rs, h, branch, commit.val)
      checked == validate_git_ref(branch)
  IN IF checked # "ok" THEN Outcome(rs, <<>>, Err(checked))
     ELSE IF ~opened.ok THEN Outcome(rs, <<"open">>, Err(opened.err))
     ELSE IF ~commit.ok THEN Outcome(rs, <<"open", lookup>>, Err(commit.err))
     ELSE IF ~made.ok THEN Outcome(rs, <<"open", lookup, "branch">>, Err(made.err))
     ELSE Outcome(made.val, <<"open", lookup, "branch">>, Ok(VUnit))

git_create_branch_outcome(rs, repo_path, branch, start_point) ==
  LET opened == open_repo_at(rs, repo_path)
      h == opened.val.v
      commit == IF IsSome(start_point) THEN revparse_single(rs, h, Unwrap(start_point))
                ELSE head_commit(rs, h)
      lookup == IF IsSome(start_point) THEN "revparse_single" ELSE "head"
      made == RepoBranch(rs, h, branch, commit.val)
      checked == validate_git_ref(branch)
      checked_start == validate_git_ref(Unwrap(start_point))
  IN IF checked # "ok" THEN Outcome(rs, <<>>, Err(checked))
     ELSE IF IsSome(start_point) /\ checked_start # "ok"
       THEN Outcome(rs, <<>>, Err(checked_start))
     ELSE IF ~opened.ok THEN Outcome(rs, <<"open">>, Err(opened.err))
     ELSE IF ~commit.ok THEN Outcome(rs, <<"open", lookup>>, Err(commit.err))
     ELSE IF ~made.ok THEN Outcome(rs, <<"open", lookup, "branch">>, Err(made.err))
     ELSE Outcome(made.val, <<"open", lookup, "branch">>, Ok(VUnit))

\* git_delete_branch without the comparison of HEAD and the reference.
git_delete_branch_no_head_check(rs, repo_path, branch, force) ==
  LET opened == open_repo_at(rs, repo_path)
      h == opened.val.v
      reference == find_reference(rs, h, branch)
      head == RepoHead(rs, h)
      checked == validate_git_ref(branch)
  IN IF checked # "ok" THEN Outcome(rs, <<>>, Err(checked))
     ELSE IF ~opened.ok THEN Outcome(rs, <<"open">>, Err(opened.err))
     ELSE IF ~reference.ok
       THEN Outcome(rs, <<"open", "find_reference">>, Err(reference.err))
     ELSE IF UnwrapOrFalse(force)
       THEN Outcome(ReferenceDelete(rs, h, branch),
                    <<"open", "find_reference", "delete">>, Ok(VUnit))
     ELSE IF ~head.ok
       THEN Outcome(rs, <<"open", "find_reference", "head">>, Err(head.err))
     ELSE IF Ahead(reference.val.target, head.val.target) > 0
       THEN Outcome(rs, <<"open", "find_reference", "head", "graph_ahead_behind">>,
                    Err("branch is not fully merged"))
     ELSE Outcome(ReferenceDelete(rs, h, branch),
                  <<"open", "find_reference", "head", "graph_ahead_behind", "delete">>,
                  Ok(VUnit))

git_delete_branch_outcome(rs, repo_path, branch, force) ==
  LET opened == open_repo_at(rs, repo_path)
      h == opened.val.v
      reference == find_reference(rs, h, branch)
      head == RepoHead(rs, h)
      checked == validate_git_ref(branch)
  IN IF checked # "ok" THEN Outcome(rs, <<>>, Err(checked))
     ELSE IF ~opened.ok THEN Outcome(rs, <<"open">>, Err(opened.err))
     ELSE IF ~reference.ok
       THEN Outcome(rs, <<"open", "find_reference">>, Err(reference.err))
     ELSE IF UnwrapOrFalse(force)
       THEN Outcome(ReferenceDelete(rs, h, branch),
                    <<"open", "find_reference", "delete">>, Ok(VUnit))
     ELSE IF ~head.ok
       THEN Outcome(rs, <<"open", "find_reference", "head">>, Err(head.err))
     ELSE IF head.val.name = reference.val.name
       THEN Outcome(rs, <<"open", "find_reference", "head">>,
                    Err("cannot delete checked out branch"))
     ELSE IF Ahead(reference.val.target, head.val.target) > 0
       THEN Outcome(rs, <<"open", "find_reference", "head", "graph_ahead_behind">>,
                    Err("branch is not fully merged"))
     ELSE Outcome(ReferenceDelete(rs, h, branch),
                  <<"open", "find_reference", "head", "graph_ahead_behind", "delete">>,
                  Ok(VUnit))

git_reset_hard_outcome(rs, repo_path, git_ref) ==
  LET opened == open_repo_at(rs, repo_path)
      h == opened.val.v
      object == revparse_single(rs, h, git_ref)
      checked == validate_git_ref(git_ref)
  IN IF checked # "ok" THEN Outcome(rs, <<>>, Err(checked))
     ELSE IF ~opened.ok THEN Outcome(rs, <<"open">>, Err(opened.err))
     ELSE IF ~object.ok THEN Outcome(rs, <<"open", "revparse_single">>, Err(object.err))
     ELSE Outcome(RepoResetHard(rs, h, object.val),
                  <<"open", "revparse_single", "reset">>, Ok(VUnit))

\* create_branch_at_head
create_branch_at_head(rs, h, branch) ==
  IF ~head_commit(rs, h).ok THEN Err(head_commit(rs, h).err)
  ELSE RepoBranch(rs, h, branch, head_commit(rs, h).val)

\* A branch is checked out when HEAD of the main working directory or of a
\* linked worktree names it.
CheckedOut(rs, i, branch) ==
  \/ rs[i].head.sym /\ rs[i].head.branch = branch
  \/ \E k \in DOMAIN rs[i].worktrees : rs[i].worktrees[k].branch = branch

\* Repository::worktree(name, path, reference): the directory must not exist
\* and the branch must not be checked out; the worktree is named after the
\* last component of the path (worktree_name_from_path).
RepoWorktree(rs, h, path, branch) ==
  IF path[1] # "wt" \/ PathExists(rs, path) THEN Err("'...' already exists")
  ELSE IF CheckedOut(rs, h.id, branch) THEN Err("reference is already checked out")
  ELSE Ok([rs EXCEPT ![h.id].worktrees =
             Put(@, path[2], [branch |-> branch, locked |-> FALSE, status |-> <<>>])])

git_create_worktree_outcome(rs, repo_path, path, branch, create_branch) ==
  LET opened == open_repo_at(rs, repo_path)
      h == opened.val.v
      created == IF create_branch THEN create_branch_at_head(rs, h, branch) ELSE Ok(rs)
      pre == IF create_branch THEN <<"open", "head", "branch">> ELSE <<"open">>
      reference == find_reference(created.val, h, branch)
      added == RepoWorktree(created.val, h, path, branch)
      checked == validate_git_ref(branch)
  IN IF checked # "ok" THEN Outcome(rs, <<>>, Err(checked))
     ELSE IF ~opened.ok THEN Outcome(rs, <<"open">>, Err(opened.err))
     ELSE IF ~created.ok THEN Outcome(rs, pre, Err(created.err))
     ELSE IF ~reference.ok
       THEN Outcome(created.val, pre \o <<"find_reference">>, Err(reference.err))
     ELSE IF ~added.ok
       THEN Outcome(created.val, pre \o <<"find_reference", "worktree">>, Err(added.err))
     ELSE Outcome(added.val, pre \o <<"find_reference", "worktree">>, Ok(VUnit))

\* open_repo: Repository::discover on the path as given.
open_repo(rs, path) == RepositoryDiscover(rs, path)

\* repo_workdir: the working directory of the handle (no repository here is bare).
repo_workdir(h) == IF h.wt = 0 THEN <<"repo", h.id>> ELSE <<"wt", h.wt>>

git_is_repo_outcome(rs, path) ==
  Outcome(rs, <<"discover">>, Ok(VBool(open_repo(rs, path).ok)))

git_repo_root_outcome(rs, path) ==
  LET opened == open_repo(rs, path)
  IN IF ~opened.ok THEN Outcome(rs, <<"discover">>, Err(opened.err))
     ELSE Outcome(rs, <<"discover">>, Ok(VPath(repo_workdir(opened.val.v))))

\* head_oid_string: the commit of HEAD, the empty string without one (here 0).
head_oid_string(rs, h) == IF RepoHead(rs, h).ok THEN RepoHead(rs, h).val.target ELSE 0

\* is_detached
is_detached(rs, h) == ~HeadOf(rs, h).sym

\* worktree_info_for_path on the working directory of handle h.
worktree_info_for_path(rs, h, locked, prunable) ==
  [ path |-> repo_workdir(h), head |-> head_oid_string(rs, h),
    branch |-> branch_from_head(rs, h), bare |-> FALSE,
    detached |-> is_detached(rs, h), locked |-> locked, prunable |-> prunable ]

\* The k-th smallest element of a finite set of numbers (names are listed in order).
Sorted(S) ==
  [k \in 1..Cardinality(S) |-> CHOOSE x \in S : Cardinality({y \in S : y < x}) = k - 1]

\* git_list_worktrees: the working directory of the handle, then every linked
\* worktree of its repository; a linked worktree whose directory is there is
\* not prunable.
git_list_worktrees_outcome(rs, repo_path) ==
  LET opened == open_repo_at(rs, repo_path)
      h == opened.val.v
      names == Sorted(DOMAIN rs[h.id].worktrees)
      linked == [k \in 1..Len(names) |->
                   worktree_info_for_path(rs, Handle(h.id, names[k]),
                                          rs[h.id].worktrees[names[k]].locked, FALSE)]
  IN IF ~opened.ok THEN Outcome(rs, <<"open">>, Err(opened.err))
     ELSE Outcome(rs, <<"open", "worktrees">>,
                  Ok(VList(<<worktree_info_for_path(rs, h, FALSE, FALSE)>> \o linked)))

\* ensure_clean_worktree
ensure_clean_worktree(rs, h) ==
  IF StatusesOf(rs, h) = <<>> THEN Ok(VUnit) ELSE Err("worktree has uncommitted changes")

\* Worktree::prune with valid and working_tree set, locked set only with force:
\* a locked worktree is pruned only with force.
WorktreePrune(rs, h, force) ==
  IF rs[h.id].worktrees[h.wt].locked /\ ~force THEN Err("not pruning locked working tree")
  ELSE Ok([rs EXCEPT ![h.id].worktrees = Restrict(@, DOMAIN @ \ {h.wt})])

\* git_remove_worktree that prunes without looking at the statuses.
git_remove_worktree_unchecked(rs, worktree_path, force) ==
  LET opened == open_repo(rs, worktree_path)
      h == opened.val.v
      pruned == WorktreePrune(rs, h, UnwrapOrFalse(force))
      pre == <<"discover", "open_from_repository">>
  IN IF ~opened.ok THEN Outcome(rs, <<"discover">>, Err(opened.err))
     ELSE IF h.wt = 0
       THEN Outcome(rs, <<"discover", "open_from_repository">>,
                    Err("cannot open worktree of a non-worktree repo"))
     ELSE IF ~pruned.ok THEN Outcome(rs, pre \o <<"prune">>, Err(pruned.err))
     ELSE Outcome(pruned.val, pre \o <<"prune">>, Ok(VUnit))

git_remove_worktree_outcome(rs, worktree_path, force) ==
  LET opened == open_repo(rs, worktree_path)
      h == opened.val.v
      clean == ensure_clean_worktree(rs, h)
      pruned == WorktreePrune(rs, h, UnwrapOrFalse(force))
      pre == IF UnwrapOrFalse(force) THEN <<"discover", "open_from_repository">>
             ELSE <<"discover", "open_from_repository", "statuses">>
  IN IF ~opened.ok THEN Outcome(rs, <<"discover">>, Err(opened.err))
     ELSE IF h.wt = 0
       THEN Outcome(rs, <<"discover", "open_from_repository">>,
                    Err("cannot open worktree of a non-worktree repo"))
     ELSE IF ~UnwrapOrFalse(force) /\ ~clean.ok THEN Outcome(rs, pre, Err(clean.err))
     ELSE IF ~pruned.ok THEN Outcome(rs, pre \o <<"prune">>, Err(pruned.err))
     ELSE Outcome(pruned.val, pre \o <<"prune">>, Ok(VUnit))

\* The entries git_status lists: those with a path and a kind.
GitStatusEntries(statuses) ==
  LET listed == SelectSeq(statuses,
                          LAMBDA e : e.path # "" /\ IsSome(status_to_kind(e.bits)))
  IN [k \in 1..Len(listed) |->
        [path |-> listed[k].path, status |-> Unwrap(status_to_kind(listed[k].bits))]]

git_status_outcome(rs, repo_path) ==
  LET opened == open_repo_at(rs, repo_path)
  IN IF ~opened.ok THEN Outcome(rs, <<"open">>, Err(opened.err))
     ELSE Outcome(rs, <<"open", "statuses">>,
                  Ok(VList(GitStatusEntries(StatusesOf(rs, opened.val.v)))))

git_changed_files_outcome(rs, repo_path) ==
  LET status == git_status_outcome(rs, repo_path)
  IN IF ~status.result.ok THEN status
     ELSE Outcome(rs, status.native,
                  Ok(VList([k \in 1..Len(status.result.val.v) |->
                              status.result.val.v[k].path])))

\* A command that opens the repository itself: it leaves the repositories of
\* its outcome (outcomes holds the one outcome), reads no clock and leaves the
\* cache alone.
Direct(op, args, outcomes) ==
  \E o \in outcomes :
    /\ last' = Call(op, args, o.native, o.result)
    /\ repos' = o.repos
    /\ UNCHANGED <<now, cache, fill>>

git_is_repo(path) ==
  Direct("git_is_repo", [path |-> path], {git_is_repo_outcome(repos, path)})

git_repo_root(path) ==
  Direct("git_repo_root", [path |-> path], {git_repo_root_outcome(repos, path)})

git_list_worktrees(repo_path) ==
  Direct("git_list_worktrees", [repo_path |-> repo_path],
         {git_list_worktrees_outcome(repos, repo_path)})

git_remove_worktree(worktree_path, force) ==
  Direct("git_remove_worktree", [worktree_path |-> worktree_path, force |-> force],
         {git_remove_worktree_outcome(repos, worktree_path, force)})

git_status(repo_path) ==
  Direct("git_status", [repo_path |-> repo_path], {git_status_outcome(repos, repo_path)})

git_changed_files(repo_path) ==
  Direct("git_changed_files", [repo_path |-> repo_path],
         {git_changed_files_outcome(repos, repo_path)})

git_create_branch(repo_path, branch, start_point) ==
  Direct("git_create_branch",
         [repo_path |-> repo_path, branch |-> branch, start_point |-> start_point],
         {git_create_branch_outcome(repos, repo_path, branch, start_point)})

git_delete_branch(repo_path, branch, force) ==
  Direct("git_delete_branch",
         [repo_path |-> repo_path, branch |-> branch, force |-> force],
         {git_delete_branch_outcome(repos, repo_path, branch, force)})

\* git_reset_hard that takes its repository from the cache (and resets nothing).
git_reset_hard_cached(repo_path, git_ref) ==
  with_cached_repo("git_reset_hard", [repo_path |-> repo_path, git_ref |-> git_ref],
                   repo_path,
                   [h \in Handles |-> git_reset_hard_outcome(repos, repo_path, git_ref).result])

git_reset_hard(repo_path, git_ref) ==
  Direct("git_reset_hard", [repo_path |-> repo_path, git_ref |-> git_ref],
         {git_reset_hard_outcome(repos, repo_path, git_ref)})

git_create_worktree(repo_path, path, branch, create_branch) ==
  Direct("git_create_worktree",
         [repo_path |-> repo_path, path |-> path, branch |-> branch,
          create_branch |-> create_branch],
         {git_create_worktree_outcome(repos, repo_path, path, branch, create_branch)})

(***************************************************************************)
(* git_rpc.rs: JSON.  A document is a value [t, v]; a text that is not     *)
(* JSON is Malformed.  A JSON string carries the text, path or ref name    *)
(* it spells.                                                              *)
(***************************************************************************)
JNull == [t |-> "null", v |-> 0]
JBool(b) == [t |-> "bool", v |-> b]
JNum(n) == [t |-> "num", v |-> n]
JStr(str) == [t |-> "str", v |-> str]
JArr(items) == [t |-> "arr", v |-> items]
JObj(fields) == [t |-> "obj", v |-> fields]
Malformed == [t |-> "malformed", v |-> 0]

\* A field of a Deserialize struct: its JSON key, its Rust name, the type it
\* takes ("string", "bool", "usize") and whether it is an Option.
Field(key, field, ty, opt) == [key |-> key, field |-> field, ty |-> ty, opt |-> opt]

\* Deserialize of one field type from a JSON value: a String takes a string,
\* a bool a boolean, a usize a non-negative integer; an Option takes null too.
TypeAccepts(ty, json) ==
  \/ ty = "string" /\ json.t = "str"
  \/ ty = "bool" /\ json.t = "bool"
  \/ ty = "usize" /\ json.t = "num" /\ json.v >= 0
  \/ ty = "value"

FieldAccepts(f, json) == TypeAccepts(f.ty, json) \/ (f.opt /\ json.t = "null")

\* The Rust value of a field read from a JSON value.
FieldValue(f, json) ==
  IF f.ty = "value" THEN json
  ELSE IF ~f.opt THEN json.v
  ELSE IF json.t = "null" THEN None
  ELSE Some(json.v)

\* serde's derived Deserialize of a struct with the fields of shape: from an
\* object (unknown keys ignored, a missing Option is None, any other missing
\* field an error) or from an array of exactly its fields, in order.
deserialize_struct(json, shape) ==
  LET fields == 1..Len(shape)
      byName(value) == [n \in {shape[i].field : i \in fields} |->
                          value[CHOOSE i \in fields : shape[i].field = n]]
      missing == {i \in fields : shape[i].key \notin DOMAIN json.v /\ ~shape[i].opt}
  IN IF json.t = "obj"
       THEN IF \E i \in fields : /\ shape[i].key \in DOMAIN json.v
                                 /\ ~FieldAccepts(shape[i], json.v[shape[i].key])
            THEN Err("invalid type")
            ELSE IF missing # {}
              THEN Err("missing field")
            ELSE Ok(byName([i \in fields |->
                      IF shape[i].key \in DOMAIN json.v
                      THEN FieldValue(shape[i], json.v[shape[i].key])
                      ELSE None]))
     ELSE IF json.t = "arr"
       THEN IF Len(json.v) < Len(shape) THEN Err("invalid length")
            ELSE IF Len(json.v) > Len(shape) THEN Err("trailing characters")
            ELSE IF \E i \in fields : ~FieldAccepts(shape[i], json.v[i])
              THEN Err("invalid type")
            ELSE Ok(byName([i \in fields |-> FieldValue(shape[i], json.v[i])]))
     ELSE Err("invalid type")

\* struct RpcRequest { id: String, method: String, params: serde_json::Value }
RpcRequest ==
  << Field("id", "id", "string", FALSE), Field("method", "method", "string", FALSE),
     Field("params", "params", "value", FALSE) >>

\* from_str with params taken as null when the key is missing, as it would be
\* with #[serde(default)] on the field.
from_str_default_params(doc) ==
  IF doc = Malformed THEN Err("expected value")
  ELSE IF doc.t = "obj" /\ "params" \notin DOMAIN doc.v
    THEN deserialize_struct(JObj([k \in DOMAIN doc.v \cup {"params"} |->
                                    IF k = "params" THEN JNull ELSE doc.v[k]]),
                            RpcRequest)
  ELSE deserialize_struct(doc, RpcRequest)

\* serde_json::from_str::<RpcRequest>(line)
from_str(doc) ==
  IF doc = Malformed THEN Err("expected value") ELSE deserialize_struct(doc, RpcRequest)

\* The parameter structs.
PathParam == << Field("path", "path", "string", FALSE) >>
RepoPathParam == << Field("repoPath", "repo_path", "string", FALSE) >>
BranchExistsParam ==
  << Field("repoPath", "repo_path", "string", FALSE),
     Field("branch", "branch", "string", FALSE) >>
CreateBranchParam ==
  << Field("repoPath", "repo_path", "string", FALSE),
     Field("branch", "branch", "string", FALSE),
     Field("startPoint", "start_point", "string", TRUE) >>
CreateWorktreeParam ==
  << Field("repoPath", "repo_path", "string", FALSE),
     Field("path", "path", "string", FALSE),
     Field("branch", "branch", "string", FALSE),
     Field("createBranch", "create_branch", "bool", TRUE) >>
RemoveWorktreeParam ==
  << Field("worktreePath", "worktree_path", "string", FALSE),
     Field("force", "force", "bool", TRUE) >>
DeleteBranchParam ==
  << Field("repoPath", "repo_path", "string", FALSE),
     Field("branch", "branch", "string", FALSE),
     Field("force", "force", "bool", TRUE) >>
ResetHardParam ==
  << Field("repoPath", "repo_path", "string", FALSE),
     Field("gitRef", "git_ref", "string", FALSE) >>
DiffRequest ==
  << Field("original", "original", "string", FALSE),
     Field("modified", "modified", "string", FALSE),
     Field("contextLines", "context_lines", "usize", TRUE) >>

(***************************************************************************)
(* git_rpc.rs: handle_request and parse_and_execute                         *)
(***************************************************************************)
\* The methods of the match in handle_request, each with its parameter struct.
MethodParams ==
  [ git_is_repo |-> PathParam,
    git_repo_root |-> PathParam,
    git_default_branch |-> RepoPathParam,
    git_current_branch |-> PathParam,
    git_branch_exists |-> BranchExistsParam,
    git_create_branch |-> CreateBranchParam,
    git_list_worktrees |-> RepoPathParam,
    git_create_worktree |-> CreateWorktreeParam,
    git_remove_worktree |-> RemoveWorktreeParam,
    git_delete_branch |-> DeleteBranchParam,
    git_current_commit |-> RepoPathParam,
    git_reset_hard |-> ResetHardParam,
    git_status |-> RepoPathParam,
    git_changed_files |-> RepoPathParam,
    diff_unified |-> DiffRequest ]

\* A match whose last arm is a method instead of the wildcard.
match_method_without_wildcard(method) ==
  IF method \in DOMAIN MethodParams THEN method ELSE "git_status"

\* The arm of the match a method name selects; "_" is the wildcard arm.
match_method(method) ==
  IF method \in DOMAIN MethodParams THEN method ELSE "_"

\* diff::unified_diff: the unified diff of two texts with a context radius (the
\* text is not spelled out: it is the diff of these inputs).
unified_diff(original, modified, context) ==
  [diff_a |-> original, diff_b |-> modified, context_radius |-> context]

Min(a, b) == IF a <= b THEN a ELSE b

\* diff_unified: the closure of the "diff_unified" arm; it touches no repository.
diff_unified(p) ==
  /\ last' = Call("diff_unified", p, <<>>,
                  Ok(VStr(unified_diff(p.original, p.modified,
                                       Min(IF IsSome(p.context_lines)
                                           THEN Unwrap(p.context_lines) ELSE 3, 200)))))
  /\ UNCHANGED <<now, cache, repos, fill>>

\* The closure of each arm, run on the parsed parameters p.
Handler(method, p) ==
  CASE method = "git_is_repo" -> git_is_repo(p.path)
    [] method = "git_repo_root" -> git_repo_root(p.path)
    [] method = "git_default_branch" -> git_default_branch(p.repo_path)
    [] method = "git_current_branch" -> git_current_branch(p.path)
    [] method = "git_branch_exists" -> git_branch_exists(p.repo_path, p.branch)
    [] method = "git_create_branch" ->
         git_create_branch(p.repo_path, p.branch, p.start_point)
    [] method = "git_list_worktrees" -> git_list_worktrees(p.repo_path)
    [] method = "git_create_worktree" ->
         git_create_worktree(p.repo_path, p.path, p.branch, UnwrapOrFalse(p.create_branch))
    [] method = "git_remove_worktree" -> git_remove_worktree(p.worktree_path, p.force)
    [] method = "git_delete_branch" -> git_delete_branch(p.repo_path, p.branch, p.force)
    [] method = "git_current_commit" -> git_current_commit(p.repo_path)
    [] method = "git_reset_hard" -> git_reset_hard(p.repo_path, p.git_ref)
    [] method = "git_status" -> git_status(p.repo_path)
    [] method = "git_changed_files" -> git_changed_files(p.repo_path)
    [] method = "diff_unified" -> diff_unified(p)

\* The serde_json::Value each arm makes of the value its command returned:
\* Value::Bool, Value::String, Value::Null for (), to_value for the lists.
ToValue(method, v) ==
  IF v.t = "unit" THEN JNull
  ELSE IF v.t = "bool" THEN JBool(v.v)
  ELSE IF v.t = "list" THEN
    JArr([k \in 1..Len(v.v) |->
            IF method = "git_changed_files" THEN JStr(v.v[k]) ELSE JObj(v.v[k])])
  ELSE JStr(v.v)

\* An RpcResponse whose id comes from a slot the connections share: the id of
\* a request that waits at the head of some connection.
RpcResponse_shared_id(id, result) ==
  LET waiting == {c \in DOMAIN conns :
                    /\ conns[c].pc = "reading"
                    /\ conns[c].input # <<>>
                    /\ Head(conns[c].input).t = "text"
                    /\ from_str(Head(conns[c].input).v).ok}
      slot == from_str(Head(conns[CHOOSE c \in waiting : TRUE].input).v).val.id
  IN IF result.ok
     THEN [id |-> slot, ok |-> TRUE, result |-> Some(result.val), error |-> None]
     ELSE [id |-> slot, ok |-> FALSE, result |-> None, error |-> Some(result.err)]

\* RpcResponse { id, ok, result, error } of handle_request for a Result.
RpcResponse(id, result) ==
  IF result.ok
  THEN [id |-> id, ok |-> TRUE, result |-> Some(result.val), error |-> None]
  ELSE [id |-> id, ok |-> FALSE, result |-> None, error |-> Some(result.err)]

\* A response to an unparseable line that reports the error with ok set.
UnparsedResponse_ok_with_error(err) ==
  [id |-> "unknown", ok |-> TRUE, result |-> None, error |-> Some(err)]

\* The response of handle_stream to a line that is no RpcRequest.
UnparsedResponse(err) ==
  [id |-> "unknown", ok |-> FALSE, result |-> None, error |-> Some(err)]

\* serde_json::to_string(&response): Option::None is written as null.
to_string(response) ==
  JObj([ id |-> JStr(response.id), ok |-> JBool(response.ok),
         result |-> IF IsSome(response.result) THEN Unwrap(response.result) ELSE JNull,
         error |-> IF IsSome(response.error) THEN JStr(Unwrap(response.error)) ELSE JNull ])

\* parse_and_execute passing the serde error on instead of mapping it.
params_error_unmapped(err) == err

\* parse_and_execute: map_err(|_| "invalid_params")
params_error(err) == "invalid_params"

(***************************************************************************)
(* git_rpc.rs: handle_stream.  A connection is                              *)
(*   pc          "idle" (slot free), "reading" (in the loop over            *)
(*               reader.lines()) or "closed" (handle_stream returned)       *)
(*   input       the lines received and not yet read, oldest first          *)
(*   eof         the client has shut down its sending side                  *)
(*   out         what was written to the stream, in order                   *)
(* and, as history of the connection: sent (the number of lines the client  *)
(* sent), decisive (the first line sent that is not blank), skipped (the    *)
(* blank lines read), answered (the document handle_stream answered),       *)
(* response (the RpcResponse it built), dispatched (the arm whose closure   *)
(* ran), write (how the writes went) and unread (the lines left unread).    *)
(***************************************************************************)
\* A line of text is blank (trim() leaves nothing) or carries a document; a
\* line that is not UTF-8 makes reader.lines() yield Err.
BlankLine == [t |-> "blank", v |-> 0]
BadBytes == [t |-> "bytes", v |-> 0]
TextLine(doc) == [t |-> "text", v |-> doc]

\* What reaches the stream: a payload, a part of one, the newline.
Chunk(payload) == [t |-> "payload", v |-> payload]
PartialChunk == [t |-> "partial", v |-> 0]
Newline == [t |-> "newline", v |-> 0]

\* How the two write_all calls can go: both succeed; the newline fails; the
\* payload fails with nothing written or after a part of it was written.
WriteOutcomes == {"ok", "newline_failed", "payload_failed", "payload_partial"}

Written(payload, w) ==
  CASE w = "ok" -> <<Chunk(payload), Newline>>
    [] w = "newline_failed" -> <<Chunk(payload)>>
    [] w = "payload_failed" -> <<>>
    [] w = "payload_partial" -> <<PartialChunk>>

FreshConn ==
  [ pc |-> "reading", input |-> <<>>, eof |-> FALSE, out |-> <<>>,
    sent |-> 0, decisive |-> None, skipped |-> 0, answered |-> None,
    response |-> None, dispatched |-> "none", write |-> "none", unread |-> 0 ]

IdleConn == [FreshConn EXCEPT !.pc = "idle"]

\* A handle_stream that goes on with the next line after it has answered one.
after_response_continue == "reading"

\* handle_stream returns after the first line it answers.
after_response == "closed"

\* The accept loop after start_git_rpc_server: running, no accept failed yet.
Listening == [accepting |-> TRUE, failed |-> 0]

\* No accept loop yet.
NotListening == [accepting |-> FALSE, failed |-> 0]

(* start_git_rpc_server and ensure_git_rpc_server, statement by statement.  *)
(* once is RPC_SOCKET_PATH (set or not); file is what is at the socket path: *)
(* nothing (0), a socket left by an earlier run of the application (-1), or  *)
(* the socket a call of this run bound (the number of the call); bound holds  *)
(* the calls whose UnixListener is alive, loops those whose accept loop runs. *)
StartCalls == 1..MaxStarts

SocketPath == "forksd/git-rpc.sock"

IdleStart == [pc |-> "idle", result |-> None]

NotStarted(file) ==
  [once |-> FALSE, file |-> file, bound |-> {}, loops |-> {},
   starts |-> [k \in StartCalls |-> IdleStart]]

\* The server as one call of start_git_rpc_server, made alone, leaves it.
Started ==
  [once |-> TRUE, file |-> 1, bound |-> {1}, loops |-> {1},
   starts |-> [k \in StartCalls |->
                 IF k = 1 THEN [pc |-> "returned", result |-> Some(Ok(SocketPath))]
                 ELSE IdleStart]]

StartReturns(k, result) == [server.starts EXCEPT ![k] = [pc |-> "returned", result |-> Some(result)]]
StartGoes(k, pc) == [server.starts EXCEPT ![k].pc = pc]

\* ensure_git_rpc_server: the published path, or start_git_rpc_server.
ensure_git_rpc_server(k) ==
  /\ server.starts[k].pc = "idle"
  /\ server' = [server EXCEPT !.starts = IF server.once THEN StartReturns(k, Ok(SocketPath))
                                          ELSE StartGoes(k, "start")]
  /\ UNCHANGED <<conns, listener, refVars, gitVars, watchVars>>

\* start_git_rpc_server, called directly or by ensure_git_rpc_server: the
\* early return when RPC_SOCKET_PATH is set.
start_git_rpc_server(k) ==
  /\ server.starts[k].pc \in {"idle", "start"}
  /\ server' = [server EXCEPT !.starts = IF server.once THEN StartReturns(k, Ok(SocketPath))
                                          ELSE StartGoes(k, "exists")]
  /\ UNCHANGED <<conns, listener, refVars, gitVars, watchVars>>

\* socket_path.exists()
start_exists(k) ==
  /\ server.starts[k].pc = "exists"
  /\ server' = [server EXCEPT !.starts = StartGoes(k, IF server.file # 0 THEN "remove"
                                                      ELSE "bind")]
  /\ UNCHANGED <<conns, listener, refVars, gitVars, watchVars>>

\* fs::remove_file(&socket_path)?: whatever is at the path is unlinked.
start_remove_file(k) ==
  /\ server.starts[k].pc = "remove"
  /\ server' = IF server.file = 0
               THEN [server EXCEPT !.starts =
                       StartReturns(k, Err("No such file or directory (os error 2)"))]
               ELSE [server EXCEPT !.file = 0, !.starts = StartGoes(k, "bind")]
  /\ UNCHANGED <<conns, listener, refVars, gitVars, watchVars>>

\* UnixListener::bind(&socket_path)?: fails when the path exists.
start_bind(k) ==
  /\ server.starts[k].pc = "bind"
  /\ server' = IF server.file # 0
               THEN [server EXCEPT !.starts =
                       StartReturns(k, Err("Address already in use (os error 98)"))]
               ELSE [server EXCEPT !.file = k, !.bound = @ \cup {k},
                                   !.starts = StartGoes(k, "permissions")]
  /\ UNCHANGED <<conns, listener, refVars, gitVars, watchVars>>

\* fs::set_permissions(&socket_path, 0600)?: on the file at the path, whoever
\* bound it; on an error the listener is dropped (its file stays).
start_set_permissions(k) ==
  /\ server.starts[k].pc = "permissions"
  /\ server' = IF server.file = 0
               THEN [server EXCEPT !.bound = @ \ {k}, !.starts =
                       StartReturns(k, Err("failed to set socket permissions: No such file or directory (os error 2)"))]
               ELSE [server EXCEPT !.starts = StartGoes(k, "set")]
  /\ UNCHANGED <<conns, listener, refVars, gitVars, watchVars>>

\* RPC_SOCKET_PATH.set(socket_path)?: fails when another call has set it; the
\* listener is dropped then.
start_set(k) ==
  /\ server.starts[k].pc = "set"
  /\ server' = IF server.once
               THEN [server EXCEPT !.bound = @ \ {k}, !.starts =
                       StartReturns(k, Err("Git RPC already initialized"))]
               ELSE [server EXCEPT !.once = TRUE, !.starts = StartGoes(k, "spawn")]
  /\ UNCHANGED <<conns, listener, refVars, gitVars, watchVars>>

\* thread::spawn of the accept loop, and Ok(socket_path).
start_spawn(k) ==
  /\ server.starts[k].pc = "spawn"
  /\ server' = [server EXCEPT !.loops = @ \cup {k},
                              !.starts = StartReturns(k, Ok(SocketPath))]
  /\ listener' = Listening
  /\ UNCHANGED <<conns, refVars, gitVars, watchVars>>

\* An accept loop that ends at the first accept that fails.
after_accept_error_stop == FALSE

\* The Err arm of the accept loop logs and goes on with the next connection.
after_accept_error == TRUE

\* listener.incoming() yields Err: the loop logs it.
AcceptFailed ==
  /\ listener.accepting
  /\ listener.failed < MaxAcceptFailures
  /\ listener' = [accepting |-> after_accept_error, failed |-> listener.failed + 1]
  /\ UNCHANGED <<conns, server, refVars, gitVars, watchVars>>

\* The listener accepts a connection and handle_stream starts on it.
Accept(c) ==
  /\ listener.accepting
  /\ conns[c].pc \in {"idle", "closed"}
  /\ conns' = [conns EXCEPT ![c] = FreshConn]
  /\ UNCHANGED <<listener, server, refVars, gitVars, watchVars>>

\* The client sends a line.
Send(c, line) ==
  /\ conns[c].pc = "reading"
  /\ ~conns[c].eof
  /\ conns[c].sent < MaxLines
  /\ Len(conns[c].input) < MaxBuf
  /\ conns' = [conns EXCEPT ![c].input = Append(@, line),
                            ![c].sent = @ + 1,
                            ![c].decisive =
                               IF @ = None /\ line # BlankLine THEN Some(line) ELSE @]
  /\ UNCHANGED <<listener, server, refVars, gitVars, watchVars>>

\* The client shuts down its sending side.
Shutdown(c) ==
  /\ conns[c].pc = "reading"
  /\ ~conns[c].eof
  /\ conns' = [conns EXCEPT ![c].eof = TRUE]
  /\ UNCHANGED <<listener, server, refVars, gitVars, watchVars>>

\* reader.lines() ends: the loop ends and handle_stream returns.
ReadEof(c) ==
  /\ conns[c].pc = "reading"
  /\ conns[c].input = <<>>
  /\ conns[c].eof
  /\ conns' = [conns EXCEPT ![c].pc = "closed"]
  /\ UNCHANGED <<listener, server, refVars, gitVars, watchVars>>

\* reader.lines() yields Err: handle_stream logs and returns.
ReadFailed(c) ==
  /\ conns[c].pc = "reading"
  /\ conns[c].input # <<>>
  /\ Head(conns[c].input) = BadBytes
  /\ conns' = [conns EXCEPT ![c].pc = "closed", ![c].input = <<>>,
                            ![c].unread = Len(conns[c].input) - 1]
  /\ UNCHANGED <<listener, server, refVars, gitVars, watchVars>>

\* line.trim().is_empty(): continue.
SkipBlank(c) ==
  /\ conns[c].pc = "reading"
  /\ conns[c].input # <<>>
  /\ Head(conns[c].input) = BlankLine
  /\ conns' = [conns EXCEPT ![c].input = Tail(@), ![c].skipped = @ + 1]
  /\ UNCHANGED <<listener, server, refVars, gitVars, watchVars>>

\* The response is serialized and written, and handle_stream returns.
Respond(c, response, dispatched) ==
  \E w \in WriteOutcomes :
    conns' = [conns EXCEPT
      ![c].pc = after_response,
      ![c].input = IF after_response = "closed" THEN <<>> ELSE Tail(@),
      ![c].unread = Len(conns[c].input) - 1,
      ![c].answered = Some(Head(conns[c].input).v),
      ![c].response = Some(response),
      ![c].dispatched = dispatched,
      ![c].write = w,
      ![c].out = @ \o Written(to_string(response), w)]

\* handle_request: the arm of the method, parse_and_execute, the response.
handle_request(c, request) ==
  LET arm == match_method(request.method)
      parsed == deserialize_struct(request.params, MethodParams[arm])
  IN IF arm = "_"
       THEN /\ Respond(c, RpcResponse(request.id, Err("unknown_method")), "none")
            /\ UNCHANGED gitVars
     ELSE IF ~parsed.ok
       THEN /\ Respond(c, RpcResponse(request.id, Err(params_error(parsed.err))), "none")
            /\ UNCHANGED gitVars
     ELSE /\ Handler(arm, parsed.val)
          /\ Respond(c, RpcResponse(request.id,
                                    IF last'.result.ok
                                    THEN Ok(ToValue(arm, last'.result.val))
                                    ELSE Err(last'.result.err)),
                     arm)

\* handle_stream on the first line that is not blank.
Answer(c) ==
  /\ conns[c].pc = "reading"
  /\ conns[c].input # <<>>
  /\ Head(conns[c].input).t = "text"
  /\ LET parsed == from_str(Head(conns[c].input).v)
     IN IF ~parsed.ok
        THEN /\ Respond(c, UnparsedResponse(parsed.err), "none")
             /\ UNCHANGED gitVars
        ELSE handle_request(c, parsed.val)
  /\ UNCHANGED <<listener, server, refVars, watchVars>>

(***************************************************************************)
(* watch.rs: one watch and its worker.  A path is the sequence of its       *)
(* components below the root directory; a displayed path is a sequence of   *)
(* components too, an absolute one led by "/".  An event is [kind, paths],  *)
(* paths in the order of Event::paths.                                      *)
(***************************************************************************)
DEFAULT_IGNORED_DIRS ==
  {".git", "node_modules", "dist", "build", "target", ".turbo", ".context",
   ".tauri", ".next", "out", "coverage", ".cache"}

clamp_debounce(value) ==
  IF value < MIN_DEBOUNCE_MS THEN MIN_DEBOUNCE_MS
  ELSE IF value > MAX_DEBOUNCE_MS THEN MAX_DEBOUNCE_MS
  ELSE value

\* Option<u64>::unwrap_or(DEFAULT_DEBOUNCE_MS)
UnwrapOrDefaultDebounce(o) == IF o = None THEN DEFAULT_DEBOUNCE_MS ELSE Unwrap(o)

\* Option<bool>::unwrap_or(true)
UnwrapOrTrue(o) == IF o = None THEN TRUE ELSE Unwrap(o)

\* The directories that hold a .git directory.
GitDirHolders == {<<"home", "w">>, <<"build", "w">>, <<"w">>, <<"main">>}

\* resolve_git_dir, of a repository root whose .git is a directory if it has one.
resolve_git_dir(repo_root) ==
  IF repo_root \in GitDirHolders THEN Some(repo_root \o <<".git">>) ELSE None

\* Path::strip_prefix
strip_prefix(path, base) ==
  IF StartsWith(path, base)
  THEN [ok |-> TRUE, val |-> SubSeq(path, Len(base) + 1, Len(path))]
  ELSE [ok |-> FALSE, val |-> <<>>]

\* Path::display of an absolute path
Display(path) == <<"/">> \o path

is_relevant_kind(kind) == kind # "Access"

kind_label(kind) ==
  CASE kind = "Create" -> "create"
    [] kind = "Modify" -> "modify"
    [] kind = "Remove" -> "remove"
    [] kind = "Access" -> "access"
    [] kind = "Any" -> "any"
    [] kind = "Other" -> "other"

is_allowed_git_path(path, git_dir) ==
  LET relative == strip_prefix(path, git_dir)
  IN IF ~relative.ok THEN FALSE
     ELSE IF relative.val \in {<<"HEAD">>, <<"index">>, <<"packed-refs">>} THEN TRUE
     ELSE Len(relative.val) >= 1 /\ relative.val[1] = "refs"

\* The loop over path.components() with the components of the path relative
\* to the worktree root, where the path lies beneath it.
has_ignored_component_relative(path, filter) ==
  LET relative == strip_prefix(path, filter.worktree_path)
      tested == IF relative.ok THEN relative.val ELSE path
  IN \E i \in 1..Len(tested) : tested[i] \in filter.ignored_dirs

\* The loop of should_emit_path over path.components(): the components of the
\* path as it was reported, the ancestors of the worktree root included.
has_ignored_component(path, filter) ==
  \E i \in 1..Len(path) : path[i] \in filter.ignored_dirs

\* should_emit_path with the ignored names tested ahead of the git directory.
should_emit_path_ignored_first(path, filter) ==
  IF \E i \in 1..Len(path) : path[i] \in filter.ignored_dirs THEN FALSE
  ELSE IF filter.git_dir # None /\ StartsWith(path, Unwrap(filter.git_dir))
  THEN is_allowed_git_path(path, Unwrap(filter.git_dir))
  ELSE TRUE

should_emit_path(path, filter) ==
  IF filter.git_dir # None /\ StartsWith(path, Unwrap(filter.git_dir))
  THEN is_allowed_git_path(path, Unwrap(filter.git_dir))
  ELSE ~has_ignored_component(path, filter)

format_event_path(path, worktree_path, git_dir) ==
  LET relative == strip_prefix(path, worktree_path)
  IN IF relative.ok THEN relative.val
     ELSE IF git_dir # None /\ strip_prefix(path, Unwrap(git_dir)).ok
     THEN <<".git">> \o strip_prefix(path, Unwrap(git_dir)).val
     ELSE Display(path)

\* The loop of collect_event over the paths of the event.
RECURSIVE collect_paths(_, _, _)
collect_paths(paths, filter, pending) ==
  IF paths = <<>> \/ Cardinality(pending) >= MAX_PENDING_PATHS THEN pending
  ELSE collect_paths(Tail(paths), filter,
         IF should_emit_path(Head(paths), filter)
         THEN pending \cup {format_event_path(Head(paths), filter.worktree_path,
                                              filter.git_dir)}
         ELSE pending)

\* collect_event with the kind recorded only below the capacity check.
collect_event_kind_after_cap(event, filter, paths, kinds) ==
  IF ~is_relevant_kind(event.kind) \/ Cardinality(paths) >= MAX_PENDING_PATHS
  THEN [paths |-> paths, kinds |-> kinds]
  ELSE [paths |-> collect_paths(event.paths, filter, paths),
        kinds |-> kinds \cup {kind_label(event.kind)}]

\* collect_event: the pending paths and kinds it leaves.
collect_event(event, filter, paths, kinds) ==
  IF ~is_relevant_kind(event.kind) THEN [paths |-> paths, kinds |-> kinds]
  ELSE IF Cardinality(paths) >= MAX_PENDING_PATHS
  THEN [paths |-> paths, kinds |-> kinds \cup {kind_label(event.kind)}]
  ELSE [paths |-> collect_paths(event.paths, filter, paths),
        kinds |-> kinds \cup {kind_label(event.kind)}]

\* The payload of a flush, without its timestamp_ms (the wall clock); paths
\* and kinds are the drained sets, whose order in the Vec is unspecified.
WatchEventPayload(cfg, paths, kinds) ==
  [watch_id |-> cfg.watch_id, worktree_path |-> cfg.worktree_display,
   paths |-> paths, kinds |-> kinds]

\* flush_events that emits the pending sets and leaves them as they are.
flush_events_keep_pending(cfg, paths, kinds) ==
  IF paths = {} THEN [emit |-> None, paths |-> paths, kinds |-> {}]
  ELSE [emit |-> Some(WatchEventPayload(cfg, paths, kinds)),
        paths |-> paths, kinds |-> kinds]

\* flush_events: what it gives to app.emit, and the pending sets it leaves.
flush_events(cfg, paths, kinds) ==
  IF paths = {} THEN [emit |-> None, paths |-> paths, kinds |-> {}]
  ELSE [emit |-> Some(WatchEventPayload(cfg, paths, kinds)),
        paths |-> {}, kinds |-> {}]

\* What the worker has received since it last blocked in recv(): the number of
\* events, the labels of those that are not accesses, the displayed paths of
\* those that pass the filter, and the flushes since.
NoWindow == [n |-> 0, kinds |-> {}, paths |-> {}, flushes |-> 0]

Passing(event, filter) ==
  IF ~is_relevant_kind(event.kind) THEN {}
  ELSE {format_event_path(event.paths[i], filter.worktree_path, filter.git_dir) :
          i \in {j \in 1..Len(event.paths) : should_emit_path(event.paths[j], filter)}}

Observe(w, event, filter) ==
  [n |-> w.n + 1,
   kinds |-> w.kinds \cup (IF is_relevant_kind(event.kind)
                           THEN {kind_label(event.kind)} ELSE {}),
   paths |-> w.paths \cup Passing(event, filter),
   flushes |-> w.flushes]

\* The WorkerConfig add_watch builds from a request whose path is a directory.
worker_config(request, watch_id) ==
  LET worktree_path == request.path
      repo_root == IF request.repo_root # None THEN Unwrap(request.repo_root)
                   ELSE worktree_path
      watch_git == UnwrapOrTrue(request.watch_git)
      git_dir == IF watch_git THEN resolve_git_dir(repo_root) ELSE None
  IN [watch_id |-> watch_id,
      worktree_display |-> Display(worktree_path),
      debounce_ms |-> clamp_debounce(UnwrapOrDefaultDebounce(request.debounce_ms)),
      filter |-> [worktree_path |-> worktree_path, git_dir |-> git_dir,
                  ignored_dirs |-> DEFAULT_IGNORED_DIRS]]

NoConfig == [watch_id |-> "", worktree_display |-> <<>>, debounce_ms |-> 0,
             filter |-> [worktree_path |-> <<>>, git_dir |-> None,
                         ignored_dirs |-> {}]]

(***************************************************************************)
(* watch.rs: the registry of watches                                        *)
(***************************************************************************)
\* u64::to_string: the decimal digits of the number.
Digits == <<"0", "1", "2", "3", "4", "5", "6", "7", "8", "9">>

RECURSIVE to_string_u64(_)
to_string_u64(n) ==
  IF n < 10 THEN Digits[n + 1]
  ELSE to_string_u64(n \div 10) \o Digits[(n % 10) + 1]

\* WatchManager::new.
NewRegistry == [next_id |-> 1, entries |-> << >>, holder |-> 0]

\* The block of add_watch that holds the lock: the id is the decimal string of
\* next_id, and next_id is incremented.
mint_watch_id_lowest_free(reg) ==
  LET free == CHOOSE n \in 1..(reg.next_id) :
                /\ to_string_u64(n) \notin DOMAIN reg.entries
                /\ \A m \in 1..(n - 1) : to_string_u64(m) \in DOMAIN reg.entries
  IN [n |-> free, id |-> to_string_u64(free),
      registry |-> [reg EXCEPT !.next_id = IF free = @ THEN @ + 1 ELSE @]]

mint_watch_id(reg) ==
  [n |-> reg.next_id, id |-> to_string_u64(reg.next_id),
   registry |-> [reg EXCEPT !.next_id = @ + 1]]

\* A WatchEntry: its sender, and its watchers (_watcher and _git_watchers),
\* each of which holds a clone of the sender; owner is the add_watch call that
\* built it.
WatchEntry(owner, watchers) == [owner |-> owner, watchers |-> watchers]

\* registry.entries.insert: an entry that was under the id is dropped.
insert_entry(reg, watch_id, entry) ==
  [reg EXCEPT !.entries = Put(@, watch_id, entry)]

\* registry.entries.remove.
remove_entry(reg, watch_id) ==
  [reg EXCEPT !.entries = Restrict(@, DOMAIN @ \ {watch_id})]

\* The paths of the git directory that get a watcher of their own.
git_watch_paths == <<"HEAD", "index", "packed-refs", "refs">>

\* add_watch, when every step of it succeeds and every path of the git
\* directory exists: the id is minted, the worker is spawned and blocks in
\* recv(), the entry with the sender and the watchers is inserted.
add_watch(request) ==
  /\ wpc = "none"
  /\ LET minted == mint_watch_id(registry)
         cfg == worker_config(request, minted.id)
         watchers == IF cfg.filter.git_dir = None THEN 1
                     ELSE 1 + Len(git_watch_paths)
     IN /\ config' = cfg
        /\ registry' = insert_entry(minted.registry, minted.id, WatchEntry(0, watchers))
        /\ history' = [history EXCEPT !.minted = Append(@, [call |-> 0, n |-> minted.n,
                                                            id |-> minted.id])]
  /\ wpc' = "recv"
  /\ senders' = TRUE
  /\ UNCHANGED <<queue, waited, pending_paths, pending_kinds, emitted, window, notified,
                 calls, workers>>

\* remove_watch with the id of the watch: the entry is removed and dropped, and
\* with it the sender and the watchers, which hold the other senders.
remove_watch_keeps_sender ==
  /\ wpc # "none"
  /\ config.watch_id \in DOMAIN registry.entries
  /\ registry' = remove_entry(registry, config.watch_id)
  /\ history' = [history EXCEPT !.removed = @ \cup {config.watch_id}]
  /\ UNCHANGED <<config, queue, senders, wpc, waited, pending_paths, pending_kinds,
                 emitted, window, notified, calls, workers>>

remove_watch ==
  /\ wpc # "none"
  /\ config.watch_id \in DOMAIN registry.entries
  /\ registry' = remove_entry(registry, config.watch_id)
  /\ senders' = FALSE
  /\ history' = [history EXCEPT !.removed = @ \cup {config.watch_id}]
  /\ UNCHANGED <<config, queue, wpc, waited, pending_paths, pending_kinds, emitted,
                 window, notified, calls, workers>>

\* The callback of make_watcher: a watcher sends an event to the worker.
Notify(event) ==
  /\ senders
  /\ notified < MaxEvents
  /\ queue' = Append(queue, event)
  /\ notified' = notified + 1
  /\ UNCHANGED <<config, senders, wpc, waited, pending_paths, pending_kinds, emitted,
                 window, registry, regVars>>

\* receiver.recv() returns the first event of a window.
Recv ==
  /\ wpc = "recv"
  /\ queue # <<>>
  /\ LET collected == collect_event(Head(queue), config.filter, pending_paths,
                                    pending_kinds)
     IN /\ pending_paths' = collected.paths
        /\ pending_kinds' = collected.kinds
  /\ queue' = Tail(queue)
  /\ wpc' = "wait"
  /\ waited' = 0
  /\ window' = Observe(NoWindow, Head(queue), config.filter)
  /\ UNCHANGED <<config, senders, emitted, notified, registry, regVars>>

\* receiver.recv() fails: the channel is empty and has no sender.
RecvDisconnected ==
  /\ wpc = "recv"
  /\ queue = <<>>
  /\ ~senders
  /\ wpc' = "done"
  /\ UNCHANGED <<config, queue, senders, waited, pending_paths, pending_kinds,
                 emitted, window, notified, registry, regVars>>

\* The debounce wait goes on with the channel empty.
Tick ==
  /\ wpc = "wait"
  /\ queue = <<>>
  /\ senders
  /\ waited < config.debounce_ms
  /\ waited' = waited + 1
  /\ UNCHANGED <<config, queue, senders, wpc, pending_paths, pending_kinds, emitted,
                 window, notified, registry, regVars>>

\* RecvInWindow that starts the wait again only for an event with a path that
\* passes the filter.
RecvInWindow_restart_on_passing ==
  /\ wpc = "wait"
  /\ queue # <<>>
  /\ LET collected == collect_event(Head(queue), config.filter, pending_paths,
                                    pending_kinds)
     IN /\ pending_paths' = collected.paths
        /\ pending_kinds' = collected.kinds
  /\ queue' = Tail(queue)
  /\ waited' = IF Passing(Head(queue), config.filter) = {} THEN waited ELSE 0
  /\ window' = Observe(window, Head(queue), config.filter)
  /\ UNCHANGED <<config, senders, wpc, emitted, notified, registry, regVars>>

\* receiver.recv_timeout(debounce) returns an event: the wait starts again.
RecvInWindow ==
  /\ wpc = "wait"
  /\ queue # <<>>
  /\ LET collected == collect_event(Head(queue), config.filter, pending_paths,
                                    pending_kinds)
     IN /\ pending_paths' = collected.paths
        /\ pending_kinds' = collected.kinds
  /\ queue' = Tail(queue)
  /\ waited' = 0
  /\ window' = Observe(window, Head(queue), config.filter)
  /\ UNCHANGED <<config, senders, wpc, emitted, notified, registry, regVars>>

\* Flush that gives the pending sets to app.emit also when no path is pending.
Flush_emits_without_paths(next) ==
  /\ emitted' = Append(emitted, WatchEventPayload(config, pending_paths, pending_kinds))
  /\ pending_paths' = {}
  /\ pending_kinds' = {}
  /\ wpc' = next
  /\ window' = [window EXCEPT !.flushes = @ + 1]
  /\ UNCHANGED <<config, queue, senders, waited, notified, registry, regVars>>

\* The flush of either arm, and where the worker goes after it.
Flush(next) ==
  LET flushed == flush_events(config, pending_paths, pending_kinds)
  IN /\ emitted' = IF flushed.emit = None THEN emitted
                   ELSE Append(emitted, Unwrap(flushed.emit))
     /\ pending_paths' = flushed.paths
     /\ pending_kinds' = flushed.kinds
     /\ wpc' = next
     /\ window' = [window EXCEPT !.flushes = @ + 1]
     /\ UNCHANGED <<config, queue, senders, waited, notified, registry, regVars>>

\* recv_timeout ends with Timeout: flush, and back to recv().
Timeout ==
  /\ wpc = "wait"
  /\ queue = <<>>
  /\ waited = config.debounce_ms
  /\ Flush("recv")

\* recv_timeout ends with Disconnected: flush, and the worker returns.
Disconnected ==
  /\ wpc = "wait"
  /\ queue = <<>>
  /\ ~senders
  /\ Flush("done")

(***************************************************************************)
(* watch.rs: add_watch step by step, next to remove_watch and remove_all    *)
(***************************************************************************)
\* The add_watch calls of the model; each runs on a thread of its own.
AddCalls == 1..MaxAdds

\* The variables of the watch that is modelled with its paths and kinds.
workerVars ==
  <<config, notified, queue, senders, wpc, waited, pending_paths, pending_kinds,
    emitted, window>>

\* An add_watch call: where it is, the id it minted, the git paths it has
\* still to watch, and what its locals sender, watcher and git_watchers hold.
IdleCall ==
  [pc |-> "idle", watch_id |-> "", git_todo |-> 0, sender |-> FALSE, watchers |-> 0,
   result |-> None]

\* The worker of a call: where it is, the events in its channel, whether its
\* pending_paths holds a path, and the numbers of events its watchers sent and
\* it gave to app.emit.
NoWorker == [pc |-> "none", queued |-> 0, pending |-> FALSE, notified |-> 0, emitted |-> 0]

NoHistory == [minted |-> <<>>, removed |-> {}, swept |-> {}, removal |-> None]

\* The entries of the registry that call k built.
Owned(k) == {id \in DOMAIN registry.entries : registry.entries[id].owner = k}

\* A Sender of the channel of call k's worker is alive: the local of the call,
\* a watcher of the call, or the entry the call inserted.
HasSender(k) == calls[k].sender \/ calls[k].watchers > 0 \/ Owned(k) # {}

\* A native watcher of call k is registered and alive.
Watching(k) ==
  \/ calls[k].watchers > 0
  \/ \E id \in Owned(k) : registry.entries[id].watchers > 0

\* add_watch returns an error before it takes the lock: the path cannot be
\* canonicalized or is not a directory.
add_watch_rejected(k) ==
  /\ calls[k].pc = "idle"
  /\ calls' = [calls EXCEPT ![k] = [@ EXCEPT !.pc = "returned",
                 !.result = Some(Err("watch path must be a directory"))]]
  /\ UNCHANGED <<registry, workers, history, refVars, gitVars, rpcVars, workerVars>>

\* add_watch up to the end of the block that holds the lock; git_paths is the
\* number of paths of the git directory that exist (0 without a git directory).
add_watch_mint(k, git_paths) ==
  /\ calls[k].pc = "idle"
  /\ registry.holder = 0
  /\ LET minted == mint_watch_id(registry)
     IN /\ registry' = minted.registry
        /\ calls' = [calls EXCEPT ![k] = [@ EXCEPT !.pc = "spawn", !.watch_id = minted.id,
                                                   !.git_todo = git_paths]]
        /\ history' = [history EXCEPT !.minted = Append(@, [call |-> k, n |-> minted.n,
                                                            id |-> minted.id])]
  /\ UNCHANGED <<workers, refVars, gitVars, rpcVars, workerVars>>

\* spawn_worker: the thread starts and blocks in recv(); add_watch holds the sender.
add_watch_spawn(k) ==
  /\ calls[k].pc = "spawn"
  /\ calls' = [calls EXCEPT ![k] = [@ EXCEPT !.pc = "watcher", !.sender = TRUE]]
  /\ workers' = [workers EXCEPT ![k] = [NoWorker EXCEPT !.pc = "recv"]]
  /\ UNCHANGED <<registry, history, refVars, gitVars, rpcVars, workerVars>>

\* The ? of make_watcher or of watch returns the error (err stands for the
\* text notify gives): the locals of add_watch (sender, watcher, git_watchers)
\* are dropped.
add_watch_failed_forgets_watchers(call, err) ==
  [call EXCEPT !.pc = "returned", !.sender = FALSE, !.result = Some(Err(err))]

add_watch_failed(call, err) ==
  [call EXCEPT !.pc = "returned", !.sender = FALSE, !.watchers = 0,
               !.result = Some(Err(err))]

\* make_watcher and watch for the worktree.
add_watch_watcher(k, ok) ==
  /\ calls[k].pc = "watcher"
  /\ calls' = [calls EXCEPT ![k] =
                 IF ok THEN [@ EXCEPT !.watchers = @ + 1,
                                      !.pc = IF calls[k].git_todo > 0 THEN "git" ELSE "insert"]
                 ELSE add_watch_failed(@, "worktree watcher")]
  /\ UNCHANGED <<registry, workers, history, refVars, gitVars, rpcVars, workerVars>>

\* make_watcher and watch for the next path of the git directory.
add_watch_git_watcher(k, ok) ==
  /\ calls[k].pc = "git"
  /\ calls' = [calls EXCEPT ![k] =
                 IF ok THEN [@ EXCEPT !.watchers = @ + 1, !.git_todo = @ - 1,
                                      !.pc = IF calls[k].git_todo > 1 THEN "git" ELSE "insert"]
                 ELSE add_watch_failed(@, "git watcher")]
  /\ UNCHANGED <<registry, workers, history, refVars, gitVars, rpcVars, workerVars>>

\* The second block that holds the lock: the entry takes the sender and the
\* watchers, and add_watch returns the id.
add_watch_insert(k) ==
  /\ calls[k].pc = "insert"
  /\ registry.holder = 0
  /\ registry' = insert_entry(registry, calls[k].watch_id,
                              WatchEntry(k, calls[k].watchers))
  /\ calls' = [calls EXCEPT ![k] = [@ EXCEPT !.pc = "returned", !.sender = FALSE,
                 !.watchers = 0, !.result = Some(Ok(calls[k].watch_id))]]
  /\ UNCHANGED <<workers, history, refVars, gitVars, rpcVars, workerVars>>

\* The blocks of add_watch that hold the lock, with the lock as a step of its
\* own.  self.inner.lock() returns when no other thread holds the mutex (it is
\* never poisoned: nothing panics while holding it).
add_watch_lock(k) ==
  /\ calls[k].pc \in {"idle", "insert"}
  /\ registry.holder = 0
  /\ registry' = [registry EXCEPT !.holder = k]
  /\ calls' = [calls EXCEPT ![k] = [@ EXCEPT !.pc = IF calls[k].pc = "idle"
                                                    THEN "mint_locked" ELSE "insert_locked"]]
  /\ UNCHANGED <<workers, history, refVars, gitVars, rpcVars, workerVars>>

\* The first block that keeps its guard: the lock is held on after the id is
\* minted.
add_watch_mint_keeps_lock(k, git_paths) ==
  /\ calls[k].pc = "mint_locked"
  /\ registry.holder = k
  /\ LET minted == mint_watch_id(registry)
     IN /\ registry' = minted.registry
        /\ calls' = [calls EXCEPT ![k] = [@ EXCEPT !.pc = "spawn", !.watch_id = minted.id,
                                                   !.git_todo = git_paths]]
        /\ history' = [history EXCEPT !.minted = Append(@, [call |-> k, n |-> minted.n,
                                                            id |-> minted.id])]
  /\ UNCHANGED <<workers, refVars, gitVars, rpcVars, workerVars>>

\* The rest of the first block: the id is minted and the guard is dropped at
\* the end of the block.
add_watch_mint_locked(k, git_paths) ==
  /\ calls[k].pc = "mint_locked"
  /\ registry.holder = k
  /\ LET minted == mint_watch_id(registry)
     IN /\ registry' = [minted.registry EXCEPT !.holder = 0]
        /\ calls' = [calls EXCEPT ![k] = [@ EXCEPT !.pc = "spawn", !.watch_id = minted.id,
                                                   !.git_todo = git_paths]]
        /\ history' = [history EXCEPT !.minted = Append(@, [call |-> k, n |-> minted.n,
                                                            id |-> minted.id])]
  /\ UNCHANGED <<workers, refVars, gitVars, rpcVars, workerVars>>

\* The rest of the second block: the entry is inserted, add_watch returns the
\* id and the guard is dropped.
add_watch_insert_locked(k) ==
  /\ calls[k].pc = "insert_locked"
  /\ registry.holder = k
  /\ registry' = [insert_entry(registry, calls[k].watch_id,
                               WatchEntry(k, calls[k].watchers)) EXCEPT !.holder = 0]
  /\ calls' = [calls EXCEPT ![k] = [@ EXCEPT !.pc = "returned", !.sender = FALSE,
                 !.watchers = 0, !.result = Some(Ok(calls[k].watch_id))]]
  /\ UNCHANGED <<workers, history, refVars, gitVars, rpcVars, workerVars>>

\* remove_watch(watch_id): the entry is removed and dropped, or "watch not found".
remove_watch_id(watch_id) ==
  /\ registry.holder = 0
  /\ history.removal # Some([id |-> watch_id, ok |-> FALSE])
  /\ IF watch_id \in DOMAIN registry.entries
     THEN /\ registry' = remove_entry(registry, watch_id)
          /\ history' = [history EXCEPT !.removed = @ \cup {watch_id},
                                        !.removal = Some([id |-> watch_id, ok |-> TRUE])]
     ELSE /\ registry' = registry
          /\ history' = [history EXCEPT !.removal = Some([id |-> watch_id, ok |-> FALSE])]
  /\ UNCHANGED <<calls, workers, refVars, gitVars, rpcVars, workerVars>>

\* remove_all: every entry is dropped.
remove_all ==
  /\ registry.holder = 0
  /\ registry' = [registry EXCEPT !.entries = << >>]
  /\ history' = [history EXCEPT !.removed = @ \cup DOMAIN registry.entries,
                                !.swept = @ \cup {k \in AddCalls : calls[k].pc # "idle"},
                                !.removal = None]
  /\ UNCHANGED <<calls, workers, refVars, gitVars, rpcVars, workerVars>>

\* A watcher of call k sends an event to the worker.
WatcherNotifies(k) ==
  /\ Watching(k)
  /\ workers[k].notified < MaxNotified
  /\ workers' = [workers EXCEPT ![k] = [@ EXCEPT !.queued = @ + 1, !.notified = @ + 1]]
  /\ UNCHANGED <<registry, calls, history, refVars, gitVars, rpcVars, workerVars>>

\* The worker of call k in recv(): an event (a path of it passes the filter or
\* none does), or the channel is empty and without senders.
WorkerRecv(k, passes) ==
  /\ workers[k].pc = "recv"
  /\ workers[k].queued > 0
  /\ workers' = [workers EXCEPT ![k] = [@ EXCEPT !.pc = "wait", !.queued = @ - 1,
                                                 !.pending = @ \/ passes]]
  /\ UNCHANGED <<registry, calls, history, refVars, gitVars, rpcVars, workerVars>>

WorkerRecvDisconnected(k) ==
  /\ workers[k].pc = "recv"
  /\ workers[k].queued = 0
  /\ ~HasSender(k)
  /\ workers' = [workers EXCEPT ![k] = [@ EXCEPT !.pc = "done"]]
  /\ UNCHANGED <<registry, calls, history, refVars, gitVars, rpcVars, workerVars>>

\* The worker of call k in recv_timeout(): an event, the timeout, or the
\* disconnection; the last two flush, which emits if a path is pending.
WorkerRecvInWindow(k, passes) ==
  /\ workers[k].pc = "wait"
  /\ workers[k].queued > 0
  /\ workers' = [workers EXCEPT ![k] = [@ EXCEPT !.queued = @ - 1, !.pending = @ \/ passes]]
  /\ UNCHANGED <<registry, calls, history, refVars, gitVars, rpcVars, workerVars>>

WorkerFlush(worker, next) ==
  [worker EXCEPT !.pc = next, !.pending = FALSE,
                 !.emitted = IF worker.pending THEN @ + 1 ELSE @]

WorkerTimeout(k) ==
  /\ workers[k].pc = "wait"
  /\ workers[k].queued = 0
  /\ workers' = [workers EXCEPT ![k] = WorkerFlush(@, "recv")]
  /\ UNCHANGED <<registry, calls, history, refVars, gitVars, rpcVars, workerVars>>

WorkerDisconnected(k) ==
  /\ workers[k].pc = "wait"
  /\ workers[k].queued = 0
  /\ ~HasSender(k)
  /\ workers' = [workers EXCEPT ![k] = WorkerFlush(@, "done")]
  /\ UNCHANGED <<registry, calls, history, refVars, gitVars, rpcVars, workerVars>>

\* A step of the worker thread of call k.
WorkerRuns(k) ==
  \/ \E passes \in BOOLEAN : WorkerRecv(k, passes)
  \/ WorkerRecvDisconnected(k)
  \/ \E passes \in BOOLEAN : WorkerRecvInWindow(k, passes)
  \/ WorkerTimeout(k)
  \/ WorkerDisconnected(k)

(***************************************************************************)
(* Specifications                                                           *)
(***************************************************************************)
NoCall == Call("none", <<>>, <<>>, Ok(VUnit))

GitInit ==
  /\ now = 0
  /\ cache = << >>
  /\ repos = [i \in RepoIds |-> InitRepo(i)]
  /\ last = NoCall
  /\ fill = [live |-> TRUE, start |-> 0, paths |-> <<>>]

RefIdle ==
  /\ name = <<>>
  /\ verdict = "none"

\* The watch worker before its watch exists.
WatchIdle ==
  /\ config = NoConfig
  /\ notified = 0
  /\ queue = <<>>
  /\ senders = FALSE
  /\ wpc = "none"
  /\ waited = 0
  /\ pending_paths = {}
  /\ pending_kinds = {}
  /\ emitted = <<>>
  /\ window = NoWindow
  /\ registry = NewRegistry
  /\ calls = [k \in AddCalls |-> IdleCall]
  /\ workers = [k \in AddCalls |-> NoWorker]
  /\ history = NoHistory

\* No connection yet.
RpcIdle ==
  /\ conns = [c \in 1..MaxConns |-> IdleConn]
  /\ listener = Listening
  /\ server = Started

InitRef ==
  /\ name \in RefInputs
  /\ verdict = "none"
  /\ GitInit
  /\ RpcIdle
  /\ WatchIdle

NextRef == Validate

SpecRef == InitRef /\ [][NextRef]_vars

\* RepoCache driven by the commands that use it, on every kind of path.
CachePaths ==
  {<<"repo", i>> : i \in RepoIds} \cup
  {<<"link", 1>>, <<"sub", 1>>, <<"plain", 0>>, <<"missing", 0>>}

InitCache == RefIdle /\ GitInit /\ RpcIdle /\ WatchIdle

CurrentBranch == \E p \in CachePaths : git_current_branch(p) /\ UNCHANGED <<refVars, rpcVars, watchVars>>
BranchExists ==
  \E p \in CachePaths, b \in {BrNew, BrDashE} :
    git_branch_exists(p, b) /\ UNCHANGED <<refVars, rpcVars, watchVars>>

NextCache == CurrentBranch \/ BranchExists

SpecCache == InitCache /\ [][NextCache]_vars

\* RepoCache just after it was filled: repositories 1..REPO_CACHE_MAX_SIZE were
\* opened one second after another, the last of them at this instant.
WarmPaths == {<<"repo", i>> : i \in 1..REPO_CACHE_MAX_SIZE}

InitWarm ==
  /\ RefIdle
  /\ RpcIdle
  /\ WatchIdle
  /\ now = REPO_CACHE_MAX_SIZE
  /\ cache = [p \in WarmPaths |-> [repo |-> Handle(p[2], 0), last_used |-> p[2]]]
  /\ repos = [i \in RepoIds |-> InitRepo(i)]
  /\ last = Call("git_current_branch", [path |-> <<"repo", REPO_CACHE_MAX_SIZE>>],
                 <<"Repository::open">>,
                 current_branch_of(repos, Handle(REPO_CACHE_MAX_SIZE, 0)))
  /\ fill = [live |-> TRUE, start |-> 1,
             paths |-> [i \in 1..REPO_CACHE_MAX_SIZE |-> <<"repo", i>>]]

NextWarm == CurrentBranch \/ BranchExists

SpecWarm == InitWarm /\ [][NextWarm]_vars

\* The commands that change a repository, with one cached command, on
\* repository 1 and on a path that does not exist, with an existing branch, a
\* new one and an invalid name.
GitPaths == {<<"repo", 1>>, <<"missing", 0>>}
GitRefs == {BrFeature, BrNew, BrDashE}

InitGit == RefIdle /\ GitInit /\ RpcIdle /\ WatchIdle

\* The cached command is called once, while the cache is cold, so that the
\* commands after it run against a cache that holds repository 1.
GitCurrentBranch ==
  /\ cache = << >>
  /\ git_current_branch(<<"repo", 1>>)
  /\ UNCHANGED <<refVars, rpcVars, watchVars>>
CreateBranch ==
  \E p \in GitPaths, b \in GitRefs, sp \in {None} \cup {Some(r) : r \in GitRefs} :
    git_create_branch(p, b, sp) /\ UNCHANGED <<refVars, rpcVars, watchVars>>
DeleteBranch ==
  \E b \in GitRefs, force \in {None, Some(TRUE)} :
    git_delete_branch(<<"repo", 1>>, b, force) /\ UNCHANGED <<refVars, rpcVars, watchVars>>
ResetHard ==
  \E r \in GitRefs : git_reset_hard(<<"repo", 1>>, r) /\ UNCHANGED <<refVars, rpcVars, watchVars>>
CreateWorktree ==
  \E b \in GitRefs, create_branch \in BOOLEAN :
    git_create_worktree(<<"repo", 1>>, <<"wt", 2>>, b, create_branch) /\ UNCHANGED <<refVars, rpcVars, watchVars>>

NextGit == GitCurrentBranch \/ CreateBranch \/ DeleteBranch \/ ResetHard \/ CreateWorktree

SpecGit == InitGit /\ [][NextGit]_vars

\* The five commands that change a repository, between cached commands that
\* fill the cache and let its entries age.
CachedQuery ==
  \E p \in {<<"repo", 1>>, <<"repo", 2>>} :
    git_current_branch(p) /\ UNCHANGED <<refVars, rpcVars, watchVars>>
CreateBranchN ==
  \E b \in {BrNew, BrDashE} :
    git_create_branch(<<"repo", 1>>, b, None) /\ UNCHANGED <<refVars, rpcVars, watchVars>>
DeleteBranchN ==
  \E b \in {BrNew, BrDashE} :
    git_delete_branch(<<"repo", 1>>, b, None) /\ UNCHANGED <<refVars, rpcVars, watchVars>>
ResetHardTo ==
  \E p \in GitPaths, r \in {BrFeature, BrDashE} :
    git_reset_hard(p, r) /\ UNCHANGED <<refVars, rpcVars, watchVars>>
AddWorktree2 ==
  \E b \in {BrFeature, BrDashE} :
    git_create_worktree(<<"repo", 1>>, <<"wt", 2>>, b, FALSE)
    /\ UNCHANGED <<refVars, rpcVars, watchVars>>
RemoveWorktreeAt ==
  \E p \in {<<"wt", 1>>, <<"wt", 2>>, <<"missing", 0>>} :
    git_remove_worktree(p, None) /\ UNCHANGED <<refVars, rpcVars, watchVars>>

NextMutate ==
  \/ CachedQuery
  \/ CreateBranchN
  \/ DeleteBranchN
  \/ ResetHardTo
  \/ AddWorktree2
  \/ RemoveWorktreeAt

SpecMutate == InitGit /\ [][NextMutate]_vars

\* The seven queries, on a repository, a subdirectory of one, a directory
\* outside any repository and a path that does not exist.
QueryPaths == {<<"repo", 1>>, <<"repo", 2>>, <<"sub", 1>>, <<"plain", 0>>, <<"missing", 0>>}

QueryCurrentBranch ==
  \E p \in QueryPaths :
    git_current_branch(p) /\ UNCHANGED <<refVars, rpcVars, watchVars>>
QueryDefaultBranch ==
  \E p \in QueryPaths :
    git_default_branch(p) /\ UNCHANGED <<refVars, rpcVars, watchVars>>
QueryCurrentCommit ==
  \E p \in QueryPaths :
    git_current_commit(p) /\ UNCHANGED <<refVars, rpcVars, watchVars>>
QueryBranchExists ==
  \E p \in QueryPaths, b \in {BrFeature, BrNew, BrDashE} :
    git_branch_exists(p, b) /\ UNCHANGED <<refVars, rpcVars, watchVars>>
QueryRepoRoot ==
  \E p \in QueryPaths :
    git_repo_root(p) /\ UNCHANGED <<refVars, rpcVars, watchVars>>
QueryStatus ==
  \E p \in QueryPaths :
    git_status(p) /\ UNCHANGED <<refVars, rpcVars, watchVars>>
QueryIsRepo ==
  \E p \in QueryPaths :
    git_is_repo(p) /\ UNCHANGED <<refVars, rpcVars, watchVars>>

NextQuery ==
  \/ QueryCurrentBranch
  \/ QueryDefaultBranch
  \/ QueryCurrentCommit
  \/ QueryBranchExists
  \/ QueryRepoRoot
  \/ QueryStatus
  \/ QueryIsRepo

SpecQuery == InitGit /\ [][NextQuery]_vars

\* The RPC server: clients connect, send lines and shut down; handle_stream
\* serves each connection.
Conns == 1..MaxConns

Request(id, method, params) ==
  TextLine(JObj([id |-> JStr(id), method |-> JStr(method), params |-> params]))

RepoOne == JStr(<<"repo", 1>>)

\* An object without params, a request for a method that is not in the table,
\* and git_create_branch with its keys in snake_case.
LineNoParams == TextLine(JObj([id |-> JStr("1"), method |-> JStr("git_status")]))
LineUnknownMethod == Request("2", "status", JObj([repoPath |-> RepoOne]))
LineSnakeCase ==
  Request("1", "git_create_branch", JObj([repo_path |-> RepoOne, branch |-> JStr(BrNew)]))

\* The lines a client sends: blank, not UTF-8, not JSON, an object without
\* params, a request written as an array, unknown methods, parameters of the
\* wrong shape, and requests whose handlers run.
RpcLines ==
  { BlankLine, BadBytes, TextLine(Malformed), LineNoParams,
    TextLine(JArr(<<JStr("1"), JStr("git_is_repo"), JObj([path |-> RepoOne])>>)),
    Request("1", "git_nope", JNull),
    LineUnknownMethod,
    Request("1", "git_current_branch", JObj(<< >>)),
    LineSnakeCase,
    Request("1", "git_current_branch", JObj([path |-> RepoOne])),
    Request("2", "git_create_branch",
            JObj([repoPath |-> RepoOne, branch |-> JStr(BrNew), startPoint |-> JNull])),
    Request("1", "git_branch_exists",
            JObj([repoPath |-> RepoOne, branch |-> JStr(BrDashE)])),
    Request("3", "diff_unified",
            JObj([original |-> JStr("a"), modified |-> JStr("b"),
                  contextLines |-> JNum(500)])),
    Request("3", "diff_unified",
            JObj([original |-> JStr("a"), modified |-> JStr("b"),
                  contextLines |-> JNum(-1)])) }

InitRpc == RefIdle /\ GitInit /\ RpcIdle /\ WatchIdle

NextRpc ==
  \E c \in Conns :
    \/ Accept(c)
    \/ \E line \in RpcLines : Send(c, line)
    \/ Shutdown(c)
    \/ ReadEof(c)
    \/ ReadFailed(c)
    \/ SkipBlank(c)
    \/ Answer(c)

SpecRpc == InitRpc /\ [][NextRpc]_vars

(* The watch worker: one watch of the worktree /home/w. *)
WtHome == <<"home", "w">>
Under(relative) == WtHome \o relative

WatchRequests ==
  {[path |-> WtHome, repo_root |-> None, debounce_ms |-> d, watch_git |-> g] :
     d \in {None, Some(0), Some(MAX_DEBOUNCE_MS + 2)}, g \in {None, Some(FALSE)}}

EvModifyA == [kind |-> "Modify", paths |-> <<Under(<<"a.txt">>)>>]
EvCreateB ==
  [kind |-> "Create",
   paths |-> <<Under(<<"src", "b.rs">>), Under(<<"node_modules", "x">>)>>]
EvRemoveIgnored == [kind |-> "Remove", paths |-> <<Under(<<"node_modules", "x">>)>>]
EvAccessC == [kind |-> "Access", paths |-> <<Under(<<"c.txt">>)>>]
EvModifyGit ==
  [kind |-> "Modify",
   paths |-> <<Under(<<".git", "HEAD">>), Under(<<".git", "objects", "ab">>)>>]
EvOtherRefsD ==
  [kind |-> "Other",
   paths |-> <<Under(<<".git", "refs", "heads", "m">>), Under(<<"d.txt">>)>>]
EvAnyNoPath == [kind |-> "Any", paths |-> <<>>]

WatchEvents ==
  {EvModifyA, EvCreateB, EvRemoveIgnored, EvAccessC, EvModifyGit, EvOtherRefsD,
   EvAnyNoPath}

InitWatch == RefIdle /\ GitInit /\ RpcIdle /\ WatchIdle

NextWatch ==
  \/ \E request \in WatchRequests :
       add_watch(request) /\ UNCHANGED <<refVars, gitVars, rpcVars>>
  \/ remove_watch /\ UNCHANGED <<refVars, gitVars, rpcVars>>
  \/ \E event \in WatchEvents :
       Notify(event) /\ UNCHANGED <<refVars, gitVars, rpcVars>>
  \/ Recv /\ UNCHANGED <<refVars, gitVars, rpcVars>>
  \/ RecvDisconnected /\ UNCHANGED <<refVars, gitVars, rpcVars>>
  \/ Tick /\ UNCHANGED <<refVars, gitVars, rpcVars>>
  \/ RecvInWindow /\ UNCHANGED <<refVars, gitVars, rpcVars>>
  \/ Timeout /\ UNCHANGED <<refVars, gitVars, rpcVars>>
  \/ Disconnected /\ UNCHANGED <<refVars, gitVars, rpcVars>>

SpecWatch == InitWatch /\ [][NextWatch]_vars


(* git_status on a working directory with one file in every status. *)
\* The bits of git2::Status (CURRENT is the absence of every bit).
StatusBits ==
  {"INDEX_NEW", "INDEX_MODIFIED", "INDEX_DELETED", "INDEX_RENAMED", "INDEX_TYPECHANGE",
   "WT_NEW", "WT_MODIFIED", "WT_DELETED", "WT_TYPECHANGE", "WT_RENAMED",
   "WT_UNREADABLE", "IGNORED", "CONFLICTED"}

InitStatus ==
  /\ RefIdle /\ RpcIdle /\ WatchIdle
  /\ now = 0
  /\ cache = << >>
  /\ last = NoCall
  /\ fill = [live |-> TRUE, start |-> 0, paths |-> <<>>]
  /\ \E bits \in SUBSET StatusBits :
       repos = [i \in RepoIds |->
                  IF i = 1
                  THEN [InitRepo(i) EXCEPT
                          !.status = <<StatusEntry("f.txt", bits),
                                       StatusEntry("g.txt", {"WT_MODIFIED"})>>]
                  ELSE InitRepo(i)]

GitStatus ==
  /\ last.op = "none"
  /\ git_status(<<"repo", 1>>)
  /\ UNCHANGED <<refVars, rpcVars, watchVars>>

GitChangedFiles ==
  /\ last.op = "git_status"
  /\ git_changed_files(<<"repo", 1>>)
  /\ UNCHANGED <<refVars, rpcVars, watchVars>>

NextStatus == GitStatus \/ GitChangedFiles

SpecStatus == InitStatus /\ [][NextStatus]_vars

(* git_delete_branch on the repositories, repository 2 with the branch "a@b" *)
(* (a name git accepts) checked out.                                        *)
BrAt == <<97, 64, 98>>

InitDelete ==
  /\ RefIdle /\ RpcIdle /\ WatchIdle
  /\ now = 0
  /\ cache = << >>
  /\ last = NoCall
  /\ fill = [live |-> TRUE, start |-> 0, paths |-> <<>>]
  /\ repos = [i \in RepoIds |->
                IF i = 2
                THEN [InitRepo(i) EXCEPT !.heads = @ @@ (BrAt :> 1),
                                         !.head.branch = BrAt]
                ELSE InitRepo(i)]

DeletePaths == {<<"repo", 1>>, <<"repo", 2>>, <<"repo", 3>>, <<"wt", 1>>, <<"sub", 1>>}
DeleteRefs == {BrMain, BrDev, BrFeature, BrAt}

DeleteAnyBranch ==
  \E p \in DeletePaths, b \in DeleteRefs, force \in {None, Some(FALSE), Some(TRUE)} :
     /\ git_delete_branch(p, b, force)
     /\ UNCHANGED <<refVars, rpcVars, watchVars>>

NextDelete == DeleteAnyBranch

SpecDelete == InitDelete /\ [][NextDelete]_vars

(* git_delete_branch and git_remove_worktree with and without force, on the  *)
(* repositories of InitDelete; worktree 1 of repository 1 has an untracked    *)
(* file, worktree 2 is added clean.                                           *)
ConflictPaths == {<<"wt", 1>>, <<"wt", 2>>, <<"repo", 1>>, <<"missing", 0>>}
ForceArgs == {None, Some(FALSE), Some(TRUE)}

DeleteBranchAt ==
  \E p \in {<<"repo", 1>>, <<"repo", 3>>, <<"wt", 1>>},
     b \in {BrDev, BrFeature}, force \in ForceArgs :
     /\ git_delete_branch(p, b, force)
     /\ UNCHANGED <<refVars, rpcVars, watchVars>>

RemoveWorktree ==
  \E p \in ConflictPaths, force \in ForceArgs :
     /\ git_remove_worktree(p, force)
     /\ UNCHANGED <<refVars, rpcVars, watchVars>>

AddWorktree ==
  \E b \in {BrDev, BrFeature} :
     /\ git_create_worktree(<<"repo", 1>>, <<"wt", 2>>, b, FALSE)
     /\ UNCHANGED <<refVars, rpcVars, watchVars>>

NextConflict == DeleteBranchAt \/ RemoveWorktree \/ AddWorktree

SpecConflict == InitDelete /\ [][NextConflict]_vars

(* The filter: the worker of a watch of /w receives one event with one path. *)
FilterRequests ==
  {[path |-> <<"w">>, repo_root |-> r, debounce_ms |-> None, watch_git |-> g] :
     r \in {None, Some(<<"main">>)}, g \in {None, Some(FALSE)}}

PathNames ==
  {"w", "main", ".git", "HEAD", "index", "packed-refs", "refs", "build", "a.txt", "x"}

RECURSIVE PathsUpTo(_)
PathsUpTo(n) ==
  IF n = 0 THEN {<<>>}
  ELSE LET shorter == PathsUpTo(n - 1)
       IN shorter \cup {Append(p, c) : p \in {q \in shorter : Len(q) = n - 1},
                                       c \in PathNames}

\* Every path of up to MaxPathLen components, and a path in and a path named
\* as each ignored directory.
FilterPaths ==
  (PathsUpTo(MaxPathLen) \ {<<>>})
  \cup {<<"w", d, "x">> : d \in DEFAULT_IGNORED_DIRS}
  \cup {<<"w", "x", d>> : d \in DEFAULT_IGNORED_DIRS}

EventKinds == {"Create", "Modify", "Remove", "Access", "Any", "Other"}

FilterEvents ==
  {[kind |-> k, paths |-> <<p>>] : k \in {"Modify", "Access"}, p \in FilterPaths}
  \cup {[kind |-> k, paths |-> <<<<"w", "a.txt">>>>] : k \in EventKinds}

InitFilter ==
  /\ RefIdle /\ GitInit /\ RpcIdle
  /\ \E request \in FilterRequests, event \in FilterEvents :
       /\ config = worker_config(request, "1")
       /\ queue = <<event>>
  /\ notified = 1
  /\ senders = TRUE
  /\ wpc = "recv"
  /\ waited = 0
  /\ pending_paths = {}
  /\ pending_kinds = {}
  /\ emitted = <<>>
  /\ window = NoWindow
  /\ registry = insert_entry(mint_watch_id(NewRegistry).registry, "1", WatchEntry(0, 1))
  /\ calls = [k \in AddCalls |-> IdleCall]
  /\ workers = [k \in AddCalls |-> NoWorker]
  /\ history = [NoHistory EXCEPT !.minted = <<[call |-> 0, n |-> 1, id |-> "1"]>>]

NextFilter == Recv /\ UNCHANGED <<refVars, gitVars, rpcVars>>

SpecFilter == InitFilter /\ [][NextFilter]_vars

(* The RPC server with several connections at once: each client sends one   *)
(* line; accepts can fail.  The handlers of the lines read no clock.        *)
ServerConns == 1..MaxServed

LineHandlerError == Request("4", "git_repo_root", JObj([path |-> JStr(<<"missing", 0>>)]))
LineIsRepo == Request("5", "git_is_repo", JObj([path |-> RepoOne]))
LineStatus == Request("6", "git_status", JObj([repoPath |-> RepoOne]))

ServerLines ==
  {TextLine(Malformed), LineUnknownMethod, LineSnakeCase, LineHandlerError,
   LineIsRepo, LineStatus}

InitServer ==
  /\ RefIdle /\ GitInit /\ WatchIdle
  /\ conns = [c \in ServerConns |-> IdleConn]
  /\ listener = Listening
  /\ server = Started

SendOne(c) == \E line \in ServerLines : conns[c].sent = 0 /\ Send(c, line)

NextServer ==
  \/ AcceptFailed
  \/ \E c \in ServerConns :
       \/ Accept(c)
       \/ SendOne(c)
       \/ Shutdown(c)
       \/ ReadEof(c)
       \/ Answer(c)

SpecServer == InitServer /\ [][NextServer]_vars

\* The calls that start the server, each on a thread of its own, by either
\* function, with and without a socket file left by an earlier run.
InitStart ==
  /\ RefIdle /\ GitInit /\ WatchIdle
  /\ conns = [c \in 1..MaxConns |-> IdleConn]
  /\ listener = NotListening
  /\ server \in {NotStarted(0), NotStarted(-1)}

NextStart ==
  \/ \E k \in StartCalls : ensure_git_rpc_server(k)
  \/ \E k \in StartCalls : start_git_rpc_server(k)
  \/ \E k \in StartCalls : start_exists(k)
  \/ \E k \in StartCalls : start_remove_file(k)
  \/ \E k \in StartCalls : start_bind(k)
  \/ \E k \in StartCalls : start_set_permissions(k)
  \/ \E k \in StartCalls : start_set(k)
  \/ \E k \in StartCalls : start_spawn(k)

SpecStart == InitStart /\ [][NextStart]_vars

\* One watch that is added, fed and removed, and its worker thread.
RemoveRequests ==
  {[path |-> WtHome, repo_root |-> None, debounce_ms |-> d, watch_git |-> Some(FALSE)] :
     d \in {None, Some(0)}}

RemoveEvents == {EvModifyA, EvCreateB, EvRemoveIgnored}

\* A step of the worker thread of the watch.
WorkerStep ==
  \/ Recv /\ UNCHANGED <<refVars, gitVars, rpcVars>>
  \/ RecvDisconnected /\ UNCHANGED <<refVars, gitVars, rpcVars>>
  \/ Tick /\ UNCHANGED <<refVars, gitVars, rpcVars>>
  \/ RecvInWindow /\ UNCHANGED <<refVars, gitVars, rpcVars>>
  \/ Timeout /\ UNCHANGED <<refVars, gitVars, rpcVars>>
  \/ Disconnected /\ UNCHANGED <<refVars, gitVars, rpcVars>>

NextRemove ==
  \/ \E request \in RemoveRequests :
       add_watch(request) /\ UNCHANGED <<refVars, gitVars, rpcVars>>
  \/ remove_watch /\ UNCHANGED <<refVars, gitVars, rpcVars>>
  \/ \E event \in RemoveEvents :
       Notify(event) /\ UNCHANGED <<refVars, gitVars, rpcVars>>
  \/ WorkerStep

SpecRemove == InitWatch /\ [][NextRemove]_vars

\* The worker thread is scheduled: it does not stay in a step it can take.
SpecRemoveFair == SpecRemove /\ WF_vars(WorkerStep)

\* The registry under add_watch calls that run step by step on threads of
\* their own, remove_watch of any id, remove_all, and the worker threads.
WatchIds == {to_string_u64(n) : n \in 1..(MaxAdds + 1)}

InitRegistry == RefIdle /\ GitInit /\ RpcIdle /\ WatchIdle

NextRegistry ==
  \/ \E k \in AddCalls : add_watch_rejected(k)
  \/ \E k \in AddCalls, git_paths \in 0..MaxGitPaths : add_watch_mint(k, git_paths)
  \/ \E k \in AddCalls : add_watch_spawn(k)
  \/ \E k \in AddCalls, ok \in BOOLEAN : add_watch_watcher(k, ok)
  \/ \E k \in AddCalls, ok \in BOOLEAN : add_watch_git_watcher(k, ok)
  \/ \E k \in AddCalls : add_watch_insert(k)
  \/ \E watch_id \in WatchIds : remove_watch_id(watch_id)
  \/ remove_all
  \/ \E k \in AddCalls : WatcherNotifies(k)
  \/ \E k \in AddCalls : WorkerRuns(k)

SpecRegistry == InitRegistry /\ [][NextRegistry]_vars

\* The add_watch calls with the lock taken in a step of its own, next to
\* remove_watch and remove_all, which wait for the lock.
NextLock ==
  \/ \E k \in AddCalls : add_watch_rejected(k)
  \/ \E k \in AddCalls : add_watch_lock(k)
  \/ \E k \in AddCalls, git_paths \in 0..MaxGitPaths : add_watch_mint_locked(k, git_paths)
  \/ \E k \in AddCalls : add_watch_spawn(k)
  \/ \E k \in AddCalls, ok \in BOOLEAN : add_watch_watcher(k, ok)
  \/ \E k \in AddCalls, ok \in BOOLEAN : add_watch_git_watcher(k, ok)
  \/ \E k \in AddCalls : add_watch_insert_locked(k)
  \/ \E watch_id \in WatchIds : remove_watch_id(watch_id)
  \/ remove_all

SpecLock == InitRegistry /\ [][NextLock]_vars

\* The add_watch calls and the worker threads alone: no watch is removed.
NextAdd ==
  \/ \E k \in AddCalls : add_watch_rejected(k)
  \/ \E k \in AddCalls, git_paths \in 0..MaxGitPaths : add_watch_mint(k, git_paths)
  \/ \E k \in AddCalls : add_watch_spawn(k)
  \/ \E k \in AddCalls, ok \in BOOLEAN : add_watch_watcher(k, ok)
  \/ \E k \in AddCalls, ok \in BOOLEAN : add_watch_git_watcher(k, ok)
  \/ \E k \in AddCalls : add_watch_insert(k)
  \/ \E k \in AddCalls : WatcherNotifies(k)
  \/ \E k \in AddCalls : WorkerRuns(k)

SpecAdd == InitRegistry /\ [][NextAdd]_vars

\* Each worker thread is scheduled: it does not stay in a step it can take.
SpecAddFair == SpecAdd /\ \A k \in AddCalls : WF_vars(WorkerRuns(k))

\* The accept loop with requests that go wrong in each way (not JSON, a handler
\* that fails) and one that is well formed.
AcceptLines == {TextLine(Malformed), LineHandlerError, LineIsRepo}

SendAccepted(c) == \E line \in AcceptLines : conns[c].sent = 0 /\ Send(c, line)

NextAccept ==
  \/ AcceptFailed
  \/ \E c \in ServerConns :
       \/ Accept(c)
       \/ SendAccepted(c)
       \/ Shutdown(c)
       \/ ReadEof(c)
       \/ Answer(c)

SpecAccept == InitServer /\ [][NextAccept]_vars

\* Each handle_stream thread runs on: a line that waits is answered.
SpecAcceptFair == SpecAccept /\ \A c \in ServerConns : WF_vars(Answer(c))

(***************************************************************************)
(* RepoCache: capacity and eviction order                                   *)
(***************************************************************************)
\* C3: in every reachable state, after any sequence of get_or_open calls (hits,
\* misses, calls failing in canonicalization or in opening the repository), the
\* cache holds at most REPO_CACHE_MAX_SIZE entries.
C3_CacheWithinCapacity == Cardinality(DOMAIN cache) <= REPO_CACHE_MAX_SIZE

\* A miss has just been inserted into a cache that was at capacity.
C3_Witness ==
  /\ Cardinality(DOMAIN cache) = REPO_CACHE_MAX_SIZE
  /\ last.op = "git_current_branch"
  /\ last.result.ok
  /\ last.native = <<"Repository::open">>
  /\ now > REPO_CACHE_MAX_SIZE

\* C4: from an empty cache, while successful get_or_open calls on distinct
\* canonical paths are made within the TTL, the cache never holds more than
\* REPO_CACHE_MAX_SIZE entries; after the (REPO_CACHE_MAX_SIZE + 1)-th such
\* call the first (least recently used) path is absent and the
\* REPO_CACHE_MAX_SIZE paths used after it are present.
C4_LruEvictedAfterCapacityPlusOne ==
  fill.live =>
    /\ Cardinality(DOMAIN cache) <= REPO_CACHE_MAX_SIZE
    /\ Len(fill.paths) = REPO_CACHE_MAX_SIZE + 1 =>
          /\ fill.paths[1] \notin DOMAIN cache
          /\ \A i \in 2..Len(fill.paths) : fill.paths[i] \in DOMAIN cache

C4_Witness ==
  /\ fill.live
  /\ Len(fill.paths) = REPO_CACHE_MAX_SIZE + 1
  /\ Cardinality(DOMAIN cache) = REPO_CACHE_MAX_SIZE

(***************************************************************************)
(* The mutating commands validate before they touch anything                *)
(***************************************************************************)
\* The ref arguments of a call of a mutating command.
RefArgs(call) ==
  IF call.op = "git_create_branch"
    THEN {call.args.branch} \cup
         (IF IsSome(call.args.start_point) THEN {Unwrap(call.args.start_point)} ELSE {})
  ELSE IF call.op \in {"git_delete_branch", "git_create_worktree"} THEN {call.args.branch}
  ELSE IF call.op = "git_reset_hard" THEN {call.args.git_ref}
  ELSE {}

InvalidRefArgs(call) == {r \in RefArgs(call) : validate_git_ref(r) # "ok"}

\* C5: a call of git_create_branch (branch, start_point), git_delete_branch,
\* git_reset_hard or git_create_worktree with an invalid ref argument returns
\* the validation error of one of its invalid arguments, makes no native call
\* (no repository is opened), and leaves every repository (its references and
\* worktrees) and the repo cache as they were.
C5_InvalidRefShortCircuits ==
  [][ LET invalid == InvalidRefArgs(last')
      IN invalid # {} =>
           /\ ~last'.result.ok
           /\ last'.result.err \in {validate_git_ref(r) : r \in invalid}
           /\ last'.native = <<>>
           /\ repos' = repos
           /\ cache' = cache ]_vars

\* git_create_branch was called with a valid new branch and a start point that
\* starts with a dash, on a repository that is in the cache.
C5_Witness ==
  /\ last.op = "git_create_branch"
  /\ last.args.repo_path = <<"repo", 1>>
  /\ last.args.branch = BrNew
  /\ last.args.start_point = Some(BrDashE)
  /\ last.result = Err("invalid ref: starts with dash")
  /\ <<"repo", 1>> \in DOMAIN cache
  /\ BrNew \notin DOMAIN repos[1].heads

(***************************************************************************)
(* RefValidator against the reference predicate                             *)
(***************************************************************************)
\* The names the reference predicate rejects, stated on the positions of the
\* name.  "Too long" is more than 256 bytes of UTF-8.
RefRejects(s) ==
  \/ Len(s) = 0
  \/ ByteLen(s) > 256
  \/ Len(s) >= 1 /\ s[1] = 45
  \/ Len(s) >= 5 /\ <<s[Len(s) - 4], s[Len(s) - 3], s[Len(s) - 2], s[Len(s) - 1], s[Len(s)]>>
                      = <<46, 108, 111, 99, 107>>
  \/ \E i \in 1..(Len(s) - 1) : s[i] = 47 /\ s[i + 1] = 47
  \/ \E i \in 1..(Len(s) - 1) : s[i] = 64 /\ s[i + 1] = 123
  \/ \E i \in 1..Len(s) : s[i] \in 0..31 \cup {127}
  \/ \E i \in 1..Len(s) : s[i] \in {32, 126, 94, 58, 63, 42, 91, 93, 92, 64, 123}
  \/ \E a \in 0..Len(s) :
        /\ a = 0 \/ s[a] = 47
        /\ \E b \in (a + 1)..(Len(s) + 1) :
              /\ b = Len(s) + 1 \/ s[b] = 47
              /\ \A j \in (a + 1)..(b - 1) : s[j] # 47
              /\ b = a + 1 \/ s[a + 1] = 46 \/ s[b - 1] = 46

\* C6: validate_git_ref rejects a name exactly when the reference predicate
\* does (empty or too long, leading '-', trailing ".lock", "//", "@{", a control
\* character, one of the characters space ~ ^ : ? * [ ] \ @ {, or a
\* '/'-separated component that is empty or starts or ends with '.'), and
\* accepts every other name; "feature/x" is accepted and "-evil", "a/.git" and
\* "refs~1" are rejected.
C6_ValidatorAgreesWithReference ==
  verdict # "none" =>
    /\ (verdict # "ok") <=> RefRejects(name)
    /\ name = <<102, 101, 97, 116, 117, 114, 101, 47, 120>> => verdict = "ok"
    /\ name \in {<<45, 101, 118, 105, 108>>, <<97, 47, 46, 103, 105, 116>>,
                 <<114, 101, 102, 115, 126, 49>>} => verdict # "ok"

\* "a/.git" has been validated and rejected for its component ".git".
C6_Witness ==
  /\ name = <<97, 47, 46, 103, 105, 116>>
  /\ verdict = "invalid ref: invalid path component"

(***************************************************************************)
(* The RPC server: one response per connection, protocol errors             *)
(***************************************************************************)
\* The payload of the response a connection built, as it goes on the wire.
Wire(k) == Chunk(to_string(Unwrap(k.response)))

\* The first line the client sent that is not blank is a readable line.
FirstNonBlankReadable(k) == IsSome(k.decisive) /\ Unwrap(k.decisive).t = "text"

\* C1 as stated: a connection whose first non-blank line is readable gets
\* exactly one response, a JSON object followed by a newline, and any other
\* connection gets none.
C1_OneResponsePerConnection ==
  \A c \in Conns :
    conns[c].pc = "closed" =>
      IF FirstNonBlankReadable(conns[c])
      THEN conns[c].out = <<Wire(conns[c]), Newline>>
      ELSE conns[c].out = <<>>

\* C1, amended: a connection never carries more than one response.  When the
\* first non-blank line the client sent is readable, handle_stream answers that
\* line and leaves every line after it unread, and what reaches the client
\* depends on the writes: the JSON object and a newline when both writes
\* succeed, the object alone when the newline fails, nothing or a part of the
\* object when the first write fails.  A connection that sent no non-blank
\* line, or whose first non-blank line cannot be read, gets nothing.
C1_OneResponseIfWritesSucceed ==
  \A c \in Conns :
    LET k == conns[c]
    IN /\ \/ k.out = <<>>
          \/ /\ IsSome(k.response)
             /\ k.out \in {<<PartialChunk>>, <<Wire(k)>>, <<Wire(k), Newline>>}
       /\ k.pc = "closed" =>
            IF FirstNonBlankReadable(k)
            THEN /\ k.answered = Some(Unwrap(k.decisive).v)
                 /\ k.unread = k.sent - k.skipped - 1
                 /\ k.write = "ok" => k.out = <<Wire(k), Newline>>
                 /\ k.write = "newline_failed" => k.out = <<Wire(k)>>
                 /\ k.write = "payload_partial" => k.out = <<PartialChunk>>
                 /\ k.write = "payload_failed" => k.out = <<>>
            ELSE /\ k.out = <<>>
                 /\ k.answered = None

\* A blank line was skipped, the request after it was answered in full, and a
\* line sent after the request was left unread.
C1_Witness ==
  \E c \in Conns :
    /\ conns[c].pc = "closed"
    /\ conns[c].skipped = 1
    /\ conns[c].unread = 1
    /\ conns[c].dispatched = "git_current_branch"
    /\ conns[c].out = <<Wire(conns[c]), Newline>>

\* The documents serde takes for an RpcRequest: an object with a string id, a
\* string method and params, or an array of the three.
IsRequestDocument(doc) ==
  \/ /\ doc.t = "obj"
     /\ {"id", "method", "params"} \subseteq DOMAIN doc.v
     /\ doc.v["id"].t = "str"
     /\ doc.v["method"].t = "str"
  \/ /\ doc.t = "arr"
     /\ Len(doc.v) = 3
     /\ doc.v[1].t = "str"
     /\ doc.v[2].t = "str"

RequestId(doc) == IF doc.t = "obj" THEN doc.v["id"].v ELSE doc.v[1].v
RequestMethod(doc) == IF doc.t = "obj" THEN doc.v["method"].v ELSE doc.v[2].v
RequestParams(doc) == IF doc.t = "obj" THEN doc.v["params"] ELSE doc.v[3]

\* C8: when the line handle_stream answers is not a request document, the
\* response it builds has id "unknown", ok = false, no result (null on the
\* wire) and the message of the parse failure as error; no handler is
\* dispatched, and that response is what reaches the client when the writes
\* succeed.
C8_UnparseableLineAnswered ==
  \A c \in Conns :
    LET k == conns[c]
        doc == Unwrap(k.answered)
    IN (IsSome(k.answered) /\ ~IsRequestDocument(doc)) =>
         /\ k.response = Some([id |-> "unknown", ok |-> FALSE, result |-> None,
                               error |-> Some(from_str(doc).err)])
         /\ from_str(doc).err # ""
         /\ k.dispatched = "none"
         /\ k.write = "ok" =>
              k.out = << Chunk(JObj([id |-> JStr("unknown"), ok |-> JBool(FALSE),
                                     result |-> JNull,
                                     error |-> JStr(from_str(doc).err)])),
                         Newline >>

\* An object without params was answered and the answer reached the client.
C8_Witness ==
  \E c \in Conns :
    /\ conns[c].pc = "closed"
    /\ conns[c].answered = Some(LineNoParams.v)
    /\ conns[c].write = "ok"
    /\ Len(conns[c].out) = 2

\* The names of the dispatch table.
RpcMethodNames ==
  { "git_is_repo", "git_repo_root", "git_default_branch", "git_current_branch",
    "git_branch_exists", "git_create_branch", "git_list_worktrees",
    "git_create_worktree", "git_remove_worktree", "git_delete_branch",
    "git_current_commit", "git_reset_hard", "git_status", "git_changed_files",
    "diff_unified" }

\* The step in which handle_stream answers a request document on connection c.
AnswersRequest(c) ==
  /\ conns[c].pc = "reading"
  /\ conns'[c].pc = "closed"
  /\ IsSome(conns'[c].answered)
  /\ IsRequestDocument(Unwrap(conns'[c].answered))

\* C9: a request whose method is none of the 15 names of the table is answered
\* with ok = false and error "unknown_method" under its own id, whatever its
\* params; no handler runs: the clock, the cache, the repositories and the
\* record of the latest command are as before.
C9_UnknownMethod ==
  [][ \A c \in Conns :
        (AnswersRequest(c)
         /\ RequestMethod(Unwrap(conns'[c].answered)) \notin RpcMethodNames) =>
          /\ conns'[c].response =
               Some([id |-> RequestId(Unwrap(conns'[c].answered)), ok |-> FALSE,
                     result |-> None, error |-> Some("unknown_method")])
          /\ conns'[c].dispatched = "none"
          /\ gitVars' = gitVars ]_vars

\* A request for the method "status", with parameters that would fit
\* git_status, was answered while the cache held a repository.
C9_Witness ==
  \E c \in Conns :
    /\ conns[c].pc = "closed"
    /\ conns[c].answered = Some(LineUnknownMethod.v)
    /\ Unwrap(conns[c].response).error = Some("unknown_method")
    /\ cache # << >>

\* The params fit a parameter struct: an object in which every key of the
\* struct that is present has a value of its type and only Options are
\* missing, or an array of exactly the fields.
ParamsFit(params, shape) ==
  \/ /\ params.t = "obj"
     /\ \A i \in 1..Len(shape) :
          IF shape[i].key \in DOMAIN params.v
          THEN FieldAccepts(shape[i], params.v[shape[i].key])
          ELSE shape[i].opt
  \/ /\ params.t = "arr"
     /\ Len(params.v) = Len(shape)
     /\ \A i \in 1..Len(shape) : FieldAccepts(shape[i], params.v[i])

\* C10: a request for a method of the table whose params do not fit the
\* parameter struct of the method is answered with ok = false and error
\* "invalid_params" under its own id; the handler does not run: the clock, the
\* cache, the repositories and the record of the latest command are as before.
C10_InvalidParams ==
  [][ \A c \in Conns :
        (AnswersRequest(c)
         /\ RequestMethod(Unwrap(conns'[c].answered)) \in RpcMethodNames
         /\ ~ParamsFit(RequestParams(Unwrap(conns'[c].answered)),
                       MethodParams[RequestMethod(Unwrap(conns'[c].answered))])) =>
          /\ conns'[c].response =
               Some([id |-> RequestId(Unwrap(conns'[c].answered)), ok |-> FALSE,
                     result |-> None, error |-> Some("invalid_params")])
          /\ conns'[c].dispatched = "none"
          /\ gitVars' = gitVars ]_vars

\* git_create_branch with snake_case keys was answered invalid_params while the
\* cache held the repository, and the branch was not created.
C10_Witness ==
  \E c \in Conns :
    /\ conns[c].pc = "closed"
    /\ conns[c].answered = Some(LineSnakeCase.v)
    /\ Unwrap(conns[c].response).error = Some("invalid_params")
    /\ <<"repo", 1>> \in DOMAIN cache
    /\ BrNew \notin DOMAIN repos[1].heads

(***************************************************************************)
(* The watch worker: debounce and the capacity of pending_paths             *)
(***************************************************************************)
\* The worker leaves the debounce wait: a flush.
IsFlush == wpc = "wait" /\ wpc' # "wait"

\* The worker takes an event from the channel.
IsReceive == queue # <<>> /\ queue' = Tail(queue)

\* paths is the union, or MAX_PENDING_PATHS of its members if it has more.
CappedUnion(paths, union) ==
  /\ paths \subseteq union
  /\ Cardinality(paths) = Min(Cardinality(union), MAX_PENDING_PATHS)

\* One payload is emitted, with the kinds and the capped paths of the window.
EmitsWindow ==
  /\ Len(emitted') = Len(emitted) + 1
  /\ SubSeq(emitted', 1, Len(emitted)) = emitted
  /\ emitted'[Len(emitted')].watch_id = config.watch_id
  /\ emitted'[Len(emitted')].kinds = window.kinds
  /\ CappedUnion(emitted'[Len(emitted')].paths, window.paths)

\* C2, as stated: a burst of N >= 1 events, each received within the debounce
\* window of the one before, ends in exactly one flush, which emits exactly one
\* event with the kinds of the burst and the capped union of its passing paths.
C2_BurstYieldsOneEvent ==
  [][ /\ IsFlush => /\ window.n >= 1
                    /\ window.flushes = 0
                    /\ queue = <<>>
                    /\ EmitsWindow
      /\ ~IsFlush => emitted' = emitted ]_vars

\* C2, amended: the burst ends in exactly one flush, when a whole debounce
\* window has passed with no event or when the worker finds the watch removed;
\* the flush emits exactly one event, with the kinds of the events of the burst
\* that are not accesses and the capped union of their passing paths, if a path
\* of the burst passed the filter, and no event if none did.
C2_BurstCoalesced ==
  [][ /\ IsFlush => /\ window.n >= 1
                    /\ window.flushes = 0
                    /\ window'.flushes = 1
                    /\ queue = <<>>
                    /\ waited = config.debounce_ms \/ ~senders
                    /\ IF window.paths = {} THEN emitted' = emitted ELSE EmitsWindow
      /\ ~IsFlush => /\ emitted' = emitted
                     /\ window'.flushes = IF wpc' = "wait" THEN 0 ELSE window.flushes
    ]_vars

\* A burst of three events, one of them with ignored paths only, has been
\* flushed as one event.
C2_Witness ==
  /\ wpc = "recv"
  /\ window.n = 3
  /\ window.flushes = 1
  /\ Len(emitted) = 1
  /\ emitted[1].kinds = {"modify", "create", "remove"}
  /\ emitted[1].paths = {<<"a.txt">>, <<"src", "b.rs">>}

\* C7: pending_paths never holds more than MAX_PENDING_PATHS paths; an event
\* received while it holds that many leaves it as it is and the worker in its
\* debounce wait, adds its kind if it is not an access, and the flush that
\* ends the window emits the pending paths and kinds.
C7_PendingPathsCapped ==
  [][ /\ Cardinality(pending_paths') <= MAX_PENDING_PATHS
      /\ (Cardinality(pending_paths) = MAX_PENDING_PATHS /\ IsReceive) =>
           /\ pending_paths' = pending_paths
           /\ wpc' = "wait"
           /\ pending_kinds \subseteq pending_kinds'
           /\ is_relevant_kind(Head(queue).kind) =>
                kind_label(Head(queue).kind) \in pending_kinds'
      /\ (Cardinality(pending_paths) = MAX_PENDING_PATHS /\ wpc = "wait") =>
           \/ wpc' = "wait"
           \/ /\ Len(emitted') = Len(emitted) + 1
              /\ emitted'[Len(emitted')].paths = pending_paths
              /\ emitted'[Len(emitted')].kinds = pending_kinds
    ]_vars

\* The window held MAX_PENDING_PATHS paths when the Create event came: its
\* path src/b.rs was dropped, its kind was kept, and the flush emitted both.
C7_Witness ==
  /\ Len(emitted) = 1
  /\ Cardinality(emitted[1].paths) = MAX_PENDING_PATHS
  /\ <<"src", "b.rs">> \in window.paths \ emitted[1].paths
  /\ "create" \in emitted[1].kinds
  /\ wpc \in {"recv", "done"}

(***************************************************************************)
(* RefValidator: the unit of the length rule                                *)
(***************************************************************************)
\* A rule other than the length rule rejects the name.
BreaksRuleBesidesLength(s) ==
  \/ Len(s) >= 1 /\ s[1] = 45
  \/ Len(s) >= 5 /\ SubSeq(s, Len(s) - 4, Len(s)) = <<46, 108, 111, 99, 107>>
  \/ \E i \in 1..(Len(s) - 1) : s[i] = 47 /\ s[i + 1] = 47
  \/ \E i \in 1..(Len(s) - 1) : s[i] = 64 /\ s[i + 1] = 123
  \/ \E i \in 1..Len(s) : s[i] \in 0..31 \cup {127} \cup GIT_REF_FORBIDDEN
  \/ Len(s) >= 1 /\ (s[1] \in {46, 47} \/ s[Len(s)] \in {46, 47})
  \/ \E i \in 1..(Len(s) - 1) : s[i] = 47 /\ s[i + 1] = 46
  \/ \E i \in 1..(Len(s) - 1) : s[i] = 46 /\ s[i + 1] = 47

\* C20, as stated: the length rule counts characters; a name of more than 256
\* characters is rejected, and a name of at most 256 characters that breaks no
\* other rule is accepted, multi-byte characters included.
C20_LengthInCharacters ==
  verdict # "none" =>
    /\ Len(name) > 256 => verdict # "ok"
    /\ (Len(name) \in 1..256 /\ ~BreaksRuleBesidesLength(name)) => verdict = "ok"

\* C20, amended: the length rule counts the bytes of the UTF-8 encoding; a name
\* of more than 256 bytes is rejected as "empty or too long" (so is every name
\* of more than 256 characters), and a name of 1 to 256 bytes that breaks no
\* other rule is accepted; a name of at most 256 characters with multi-byte
\* characters is rejected when its encoding is longer than 256 bytes.
C20_LengthInBytes ==
  verdict # "none" =>
    /\ ByteLen(name) > 256 => verdict = "invalid ref: empty or too long"
    /\ Len(name) > 256 => verdict = "invalid ref: empty or too long"
    /\ ByteLen(name) \in 1..256 => verdict # "invalid ref: empty or too long"
    /\ (ByteLen(name) \in 1..256 /\ ~BreaksRuleBesidesLength(name)) => verdict = "ok"

\* 129 two-byte characters (258 bytes) have been rejected as too long.
C20_Witness ==
  /\ Len(name) = 129
  /\ \A i \in 1..Len(name) : name[i] = 233
  /\ verdict = "invalid ref: empty or too long"

(***************************************************************************)
(* git_status: the kind of an entry                                         *)
(***************************************************************************)
\* The kinds in their priority order, and the bits that give each.
KindOrder ==
  <<"conflicted", "deleted", "added", "untracked", "renamed", "typechange", "modified">>

KindBits ==
  [conflicted |-> {"CONFLICTED"},
   deleted |-> {"INDEX_DELETED", "WT_DELETED"},
   added |-> {"INDEX_NEW"},
   untracked |-> {"WT_NEW"},
   renamed |-> {"INDEX_RENAMED", "WT_RENAMED"},
   typechange |-> {"INDEX_TYPECHANGE", "WT_TYPECHANGE"},
   modified |-> {"INDEX_MODIFIED", "WT_MODIFIED"}]

\* The positions in KindOrder of the kinds that match the bits.
Matching(bits) == {k \in 1..Len(KindOrder) : bits \cap KindBits[KindOrder[k]] # {}}

\* The entries of the listing that git_status or git_changed_files returned.
Listed == last.result.val.v

\* C14: the kind git_status reports for an entry is the first kind of the
\* order conflicted > deleted > added > untracked > renamed > typechange >
\* modified that one of its bits matches; a conflicted entry is "conflicted"
\* whatever its other bits; an entry that matches no kind is not listed.
C14_StatusKindByPriority ==
  (last.op = "git_status" /\ last.result.ok) =>
    LET bits == repos[1].status[1].bits
    IN /\ Matching(bits) = {} =>
            Listed = <<[path |-> "g.txt", status |-> "modified"]>>
       /\ Matching(bits) # {} =>
            /\ Len(Listed) = 2
            /\ Listed[1].path = "f.txt"
            /\ \E k \in Matching(bits) :
                 /\ \A j \in Matching(bits) : k <= j
                 /\ Listed[1].status = KindOrder[k]
            /\ Listed[2] = [path |-> "g.txt", status |-> "modified"]
       /\ "CONFLICTED" \in bits => Listed[1].status = "conflicted"

\* A conflicted entry that is also deleted, added and modified is listed as
\* conflicted.
C14_Witness ==
  /\ last.op = "git_status"
  /\ repos[1].status[1].bits = {"CONFLICTED", "WT_DELETED", "INDEX_NEW", "WT_MODIFIED"}
  /\ Listed[1] = [path |-> "f.txt", status |-> "conflicted"]

(***************************************************************************)
(* git_delete_branch: the checked-out branch                                *)
(***************************************************************************)
\* The call of this step is a git_delete_branch without force on the branch
\* that HEAD of the working tree at repo_path names.
DeletesCheckedOut ==
  /\ last'.op = "git_delete_branch"
  /\ ~UnwrapOrFalse(last'.args.force)
  /\ open_repo_at(repos, last'.args.repo_path).ok
  /\ LET h == open_repo_at(repos, last'.args.repo_path).val.v
     IN /\ HeadOf(repos, h).sym
        /\ HeadOf(repos, h).branch = last'.args.branch
        /\ last'.args.branch \in DOMAIN repos[h.id].heads

\* C13, as stated: such a call always fails with "cannot delete checked out
\* branch" and leaves every reference unchanged.
C13_CheckedOutBranchConflict ==
  [][ DeletesCheckedOut =>
        /\ last'.result = Err("cannot delete checked out branch")
        /\ repos' = repos ]_vars

\* C13, amended: such a call always fails and leaves every reference unchanged;
\* the error is "cannot delete checked out branch" when the branch name passes
\* validate_git_ref, and the validator's error when it does not (the validator
\* rejects names git accepts, such as "a@b").
C13_CheckedOutBranchKept ==
  [][ DeletesCheckedOut =>
        /\ last'.result =
             IF validate_git_ref(last'.args.branch) = "ok"
             THEN Err("cannot delete checked out branch")
             ELSE Err(validate_git_ref(last'.args.branch))
        /\ repos' = repos ]_vars

\* The checked-out branch m of repository 1 was asked to be deleted with
\* force = false: the conflict error, and m is still there.
C13_Witness ==
  /\ last.op = "git_delete_branch"
  /\ last.args = [repo_path |-> <<"repo", 1>>, branch |-> BrMain, force |-> Some(FALSE)]
  /\ last.result = Err("cannot delete checked out branch")
  /\ last.native = <<"open", "find_reference", "head">>
  /\ BrMain \in DOMAIN repos[1].heads

(***************************************************************************)
(* The watch worker: the path filter                                        *)
(***************************************************************************)
\* path is dir or lies under it.
LiesUnder(path, dir) ==
  /\ Len(path) >= Len(dir)
  /\ \A i \in 1..Len(dir) : path[i] = dir[i]

\* The filter of the claim: under the git directory, exactly HEAD, index,
\* packed-refs or refs and what is under it; elsewhere, no component of the
\* path named as an ignored directory.
FilterAccepts(path, git_dir) ==
  IF git_dir # None /\ LiesUnder(path, git_dir[1])
  THEN LET n == Len(git_dir[1])
       IN \/ Len(path) = n + 1 /\ path[n + 1] \in {"HEAD", "index", "packed-refs"}
          \/ Len(path) >= n + 1 /\ path[n + 1] = "refs"
  ELSE \A i \in 1..Len(path) :
         path[i] \notin {".git", "node_modules", "dist", "build", "target", ".turbo",
                         ".context", ".tauri", ".next", "out", "coverage", ".cache"}

\* C17: the worker keeps the path of an event exactly when the event is not an
\* access and the filter of the claim accepts the path; an access event adds
\* neither a path nor a kind, every other event adds its kind.
C17_FilterAcceptsExactly ==
  [][ IsReceive =>
        LET event == Head(queue)
            kept == {p \in {event.paths[i] : i \in 1..Len(event.paths)} :
                       FilterAccepts(p, config.filter.git_dir)}
        IN /\ event.kind = "Access" =>
                /\ pending_paths' = pending_paths
                /\ pending_kinds' = pending_kinds
           /\ event.kind # "Access" =>
                /\ Cardinality(pending_paths') = Cardinality(kept)
                /\ pending_kinds' = {kind_label(event.kind)}
                /\ kind_label(event.kind) # "access" ]_vars

\* refs/x under the watched git directory of the main repository was kept.
C17_Witness ==
  /\ wpc = "wait"
  /\ config.filter.git_dir = Some(<<"main", ".git">>)
  /\ pending_paths = {<<".git", "refs", "x">>}
  /\ pending_kinds = {"modify"}

(***************************************************************************)
(* The RPC server: several connections                                      *)
(***************************************************************************)
\* The result of the response to a request for method, after the call that
\* the handler of this step made.
OwnResult(method) ==
  IF last'.result.ok THEN [ok |-> TRUE, result |-> Some(ToValue(method, last'.result.val)),
                           error |-> None]
  ELSE [ok |-> FALSE, result |-> None, error |-> Some(last'.result.err)]

\* C11: when handle_stream answers a request on a connection, the response
\* carries the id of that request; when a handler ran, it ran the method of
\* that request on the params of that request and the response carries its
\* result; what is written goes to that connection alone, whatever the other
\* connections hold.
C11_ResponsePairedWithRequest ==
  [][ \A c \in ServerConns :
        AnswersRequest(c) =>
          LET doc == Unwrap(conns'[c].answered)
              response == Unwrap(conns'[c].response)
          IN /\ doc = Head(conns[c].input).v
             /\ response.id = RequestId(doc)
             /\ conns'[c].dispatched # "none" =>
                  /\ conns'[c].dispatched = RequestMethod(doc)
                  /\ last'.op = RequestMethod(doc)
                  /\ [ok |-> response.ok, result |-> response.result,
                      error |-> response.error] = OwnResult(RequestMethod(doc))
             /\ conns'[c].out \in {<<>>, <<PartialChunk>>, <<Chunk(to_string(response))>>,
                                   <<Chunk(to_string(response)), Newline>>}
             /\ \A d \in ServerConns \ {c} : conns'[d] = conns[d] ]_vars

\* Two connections were open at once with requests 5 and 6; each got the
\* response of its own request.
C11_Witness ==
  /\ conns[1].pc = "closed"
  /\ conns[2].pc = "closed"
  /\ conns[1].answered = Some(LineIsRepo.v)
  /\ conns[2].answered = Some(LineStatus.v)
  /\ conns[1].out = <<Chunk(JObj([id |-> JStr("5"), ok |-> JBool(TRUE),
                                  result |-> JBool(TRUE), error |-> JNull])),
                      Newline>>
  /\ Unwrap(conns[2].response).id = "6"
  /\ Unwrap(conns[2].response).ok
  /\ last.op = "git_is_repo"

\* The response to the request git_is_repo of repository 1.
IsRepoResponse ==
  [id |-> "5", ok |-> TRUE, result |-> Some(JBool(TRUE)), error |-> None]

\* The responses that report an error.
ErrorResponse(k) == IsSome(k.response) /\ ~Unwrap(k.response).ok

\* C12: whatever went wrong before (lines that are not JSON, handlers that
\* fail, writes that fail, clients that hang up, accepts that fail), the
\* accept loop is running, and a well-formed request that waits on a
\* connection is answered with its own result.
C12_FailuresStayLocal ==
  /\ [](listener.accepting)
  /\ \A c \in ServerConns :
       (conns[c].pc = "reading" /\ conns[c].input = <<LineIsRepo>>)
         ~> (conns[c].pc = "closed" /\ conns[c].response = Some(IsRepoResponse))

\* Accepts have failed, connection 1 was answered with an error, and the
\* request on connection 2 was answered in full.
C12_Witness ==
  /\ listener.failed = MaxAcceptFailures
  /\ listener.accepting
  /\ conns[1].pc = "closed"
  /\ ErrorResponse(conns[1])
  /\ conns[2].pc = "closed"
  /\ conns[2].response = Some(IsRepoResponse)
  /\ conns[2].write = "ok"

(***************************************************************************)
(* The watch worker: after remove_watch                                     *)
(***************************************************************************)
\* remove_watch takes the entry of the watch out of the registry.
IsRemove ==
  /\ config.watch_id \in DOMAIN registry.entries
  /\ config.watch_id \notin DOMAIN registry'.entries

\* The watch was added and its entry is not in the registry.
Removed == wpc # "none" /\ config.watch_id \notin DOMAIN registry.entries

\* C15: remove_watch of the id of the watch drops the entry and every sender
\* of the channel; from then on the entry stays out, no event is added to the
\* channel, the worker returns only with the channel empty, the step in which
\* it finds the disconnection in its debounce wait is one flush (one event
\* with the pending paths and kinds, or none if no path is pending), after
\* its return nothing is emitted, and the worker does return.
C15_RemovedWatchWindsDown ==
  /\ [][ /\ IsRemove => (~senders' /\ history'.removed = history.removed \cup {config.watch_id})
         /\ Removed =>
              /\ Removed'
              /\ ~senders'
              /\ queue' = queue \/ (queue # <<>> /\ queue' = Tail(queue))
              /\ wpc' = "done" => queue' = <<>>
              /\ (wpc = "wait" /\ wpc' = "done") =>
                   /\ window'.flushes = window.flushes + 1
                   /\ pending_paths' = {}
                   /\ pending_kinds' = {}
                   /\ emitted' = IF pending_paths = {} THEN emitted
                                 ELSE Append(emitted,
                                             WatchEventPayload(config, pending_paths,
                                                               pending_kinds))
              /\ wpc = "done" => (wpc' = "done" /\ emitted' = emitted) ]_vars
  /\ Removed ~> (wpc = "done")

\* The watch was removed while its worker waited with a path pending; the
\* worker took the event that was still in the channel, found the
\* disconnection before the debounce time had passed, flushed both paths as
\* one event and returned.
C15_Witness ==
  /\ Removed
  /\ wpc = "done"
  /\ queue = <<>>
  /\ window.n = 2
  /\ window.flushes = 1
  /\ waited < config.debounce_ms
  /\ Len(emitted) = 1
  /\ emitted[1].paths = {<<"a.txt">>, <<"src", "b.rs">>}

(***************************************************************************)
(* The registry: ids, remove_all, and add_watch calls that fail             *)
(***************************************************************************)
\* C18: under every interleaving of add_watch, remove_watch and remove_all
\* calls, the ids minted so far are pairwise different, each minted later is
\* the decimal string of a greater number than each minted earlier (also than
\* those whose watch was removed since), next_id is greater than all of them,
\* every call holds the id that was minted for it, and every entry is under
\* the id of the call that built it.
C18_IdsIncreaseNeverReused ==
  LET minted == history.minted
  IN /\ \A i, j \in 1..Len(minted) :
          i < j => /\ minted[i].n < minted[j].n
                   /\ minted[i].id # minted[j].id
     /\ \A i \in 1..Len(minted) :
          /\ minted[i].n < registry.next_id
          /\ minted[i].id = to_string_u64(minted[i].n)
          /\ calls[minted[i].call].watch_id = minted[i].id
     /\ \A id \in DOMAIN registry.entries :
          calls[registry.entries[id].owner].watch_id = id

\* The watch of the first id was removed, another id was minted after it, and
\* the watch of that id is the only one in the registry.
C18_Witness ==
  /\ Len(history.minted) = MaxAdds
  /\ history.minted[1].id \in history.removed
  /\ history.removal = Some([id |-> history.minted[1].id, ok |-> TRUE])
  /\ DOMAIN registry.entries = {history.minted[MaxAdds].id}

\* C16, as stated: once remove_all has run, no add_watch call that had begun
\* by then has a watch in the registry.
C16_RemoveAllClearsEveryWatch ==
  \A k \in history.swept : Owned(k) = {}

\* add_watch call k failed at a watcher, after its worker was spawned.
WatcherFailed(k) ==
  /\ calls[k].result \in {Some(Err("worktree watcher")), Some(Err("git watcher"))}

\* C19, as stated: a call that failed at a watcher has no entry, holds no
\* watcher and no sender, and its worker has emitted nothing.
C19_FailedAddEmitsNothing ==
  \A k \in AddCalls :
    WatcherFailed(k) =>
      /\ Owned(k) = {}
      /\ calls[k].watch_id \notin DOMAIN registry.entries
      /\ ~HasSender(k)
      /\ workers[k].emitted = 0

\* C19, amended: a call that failed at a watcher has no entry, holds no
\* watcher and no sender, and its worker terminates.  The worker has emitted
\* nothing when the worktree watcher is the one that failed; when a watcher of
\* the git directory failed, the worker flushes the events the worktree
\* watcher had sent by then, and emits at most one event for each of them.
C19_FailedAddReleasesAndWorkerEnds ==
  /\ [](\A k \in AddCalls :
          WatcherFailed(k) =>
            /\ Owned(k) = {}
            /\ calls[k].watch_id \notin DOMAIN registry.entries
            /\ ~HasSender(k)
            /\ calls[k].watchers = 0
            /\ workers[k].emitted <= workers[k].notified - workers[k].queued
            /\ calls[k].result = Some(Err("worktree watcher")) =>
                 /\ workers[k].notified = 0
                 /\ workers[k].emitted = 0)
  /\ \A k \in AddCalls : WatcherFailed(k) ~> (workers[k].pc = "done")

\* The worktree watcher of call 1 had sent an event when the watcher of the
\* git directory failed; the worker flushed it as an event and returned.
C19_Witness ==
  /\ calls[1].result = Some(Err("git watcher"))
  /\ workers[1].pc = "done"
  /\ workers[1].notified = 1
  /\ workers[1].emitted = 1
  /\ registry.entries = << >>

(***************************************************************************)
(* RepoCache: the staleness sweep                                           *)
(***************************************************************************)
\* The canonical path of the path argument of the latest command.
RequestedKey ==
  LET path == IF "path" \in DOMAIN last'.args THEN last'.args.path
              ELSE last'.args.repo_path
  IN canonicalize(repos, path)

\* The step is a get_or_open call (the clock was read) that leaves the entry
\* under p as it was.
Retains(p) ==
  /\ p \in DOMAIN cache'
  /\ IF RequestedKey.ok /\ RequestedKey.val.v = p
     THEN /\ cache'[p] = [cache[p] EXCEPT !.last_used = now']
          /\ last'.native = <<>>
     ELSE cache'[p] = cache[p]

\* The step is a get_or_open call that removes the entry under p; when p is
\* the requested path, the repository is opened again.
Removes(p) ==
  \/ p \notin DOMAIN cache'
  \/ /\ RequestedKey.ok
     /\ RequestedKey.val.v = p
     /\ last'.native = <<"Repository::open">>
     /\ cache'[p].last_used = now'

IsArrival == wpc = "wait" /\ IsReceive

\* An arrival starts the full wait again and flushes nothing.
RestartsWait == wpc' = "wait" /\ waited' = 0 /\ emitted' = emitted

\* C22, as stated: in the debounce wait every event received starts the full
\* wait again, whether or not it passes the filter; a flush happens only when
\* a whole debounce window has passed with no event received, and nothing is
\* emitted but by a flush.
C22_FlushOnlyAfterFullWindow ==
  [][ /\ IsArrival => RestartsWait
      /\ IsFlush => queue = <<>> /\ waited = config.debounce_ms
      /\ emitted' # emitted => IsFlush ]_vars

\* C22, amended: in the debounce wait every event received starts the full
\* wait again, whether or not it passes the filter; a flush happens when a
\* whole debounce window has passed with no event received, or, before the
\* window is over, when the worker finds the channel empty and disconnected
\* (the watch was removed); nothing is emitted but by a flush.
C22_FlushAfterFullWindowOrRemoval ==
  [][ /\ IsArrival => RestartsWait
      /\ IsFlush => queue = <<>> /\ (waited = config.debounce_ms \/ ~senders)
      /\ emitted' # emitted => IsFlush ]_vars

\* The window began with a change of a.txt; an access and an event with
\* ignored paths only have arrived since, the wait has just started again and
\* nothing was emitted.
C22_Witness ==
  /\ wpc = "wait"
  /\ waited = 0
  /\ window.n = 3
  /\ window.kinds = {"modify", "remove"}
  /\ window.paths = {<<"a.txt">>}
  /\ queue = <<>>
  /\ emitted = <<>>

(***************************************************************************)
(* flush_events with no pending path                                        *)
(***************************************************************************)
\* C30: no payload emitted has an empty paths list; a flush (of the Timeout or
\* of the Disconnected arm) that closes a window in which no path passed the
\* filter emits nothing and leaves no pending kind.
C30_NoEventWithoutPaths ==
  /\ [](\A i \in 1..Len(emitted) : emitted[i].paths # {})
  /\ [][ (IsFlush /\ window.paths = {}) =>
           /\ emitted' = emitted
           /\ pending_kinds' = {}
           /\ pending_paths' = {} ]_vars

\* A window of two events, a removal under node_modules among them, in which
\* no path passed the filter, has been closed by the timeout: the kinds were
\* collected and nothing was emitted.
C30_Witness ==
  /\ wpc = "recv"
  /\ window.n = 2
  /\ window.flushes = 1
  /\ window.paths = {}
  /\ "remove" \in window.kinds
  /\ pending_kinds = {}
  /\ emitted = <<>>

(***************************************************************************)
(* get_or_open on a path that cannot be canonicalized                       *)
(***************************************************************************)
\* The step is a get_or_open call whose canonicalize fails.
CanonicalizeFails == now' > now /\ ~RequestedKey.ok

\* The error of canonicalize is the result of the command, and no repository
\* was opened.
SurfacesAsIs ==
  /\ last'.result = Err(RequestedKey.err)
  /\ last'.native = <<>>

\* The entries of the cache that are not stale at the instant of the call.
Fresh == {p \in DOMAIN cache : now' - cache[p].last_used < REPO_CACHE_TTL_SECS}

\* C23, as stated: get_or_open canonicalizes before it evicts anything, so a
\* call whose canonicalize fails returns that error as it is and leaves the
\* cache exactly as it was.
C23_FailedCanonicalizeLeavesCache ==
  [][ CanonicalizeFails => SurfacesAsIs /\ cache' = cache ]_vars

\* C23, amended: get_or_open evicts before it canonicalizes, so a call whose
\* canonicalize fails returns that error as it is, inserts no entry and
\* refreshes no last_used, but has removed every stale entry and, if
\* REPO_CACHE_MAX_SIZE entries were not stale, the oldest of them.
C23_FailedCanonicalizeStillEvicts ==
  [][ CanonicalizeFails =>
        /\ SurfacesAsIs
        /\ DOMAIN cache' \subseteq Fresh
        /\ \A p \in DOMAIN cache' : cache'[p] = cache[p]
        /\ IF Cardinality(Fresh) < REPO_CACHE_MAX_SIZE
           THEN DOMAIN cache' = Fresh
           ELSE /\ Cardinality(DOMAIN cache') = REPO_CACHE_MAX_SIZE - 1
                /\ \A p \in Fresh \ DOMAIN cache', q \in DOMAIN cache' :
                     cache[p].last_used <= cache[q].last_used ]_vars

\* One second after the cache was filled a command was called on a path that
\* does not exist: it failed in canonicalize, and repository 1, the oldest
\* entry, is gone.
C23_Witness ==
  /\ now = REPO_CACHE_MAX_SIZE + 1
  /\ ~last.result.ok
  /\ last.result.err = "No such file or directory (os error 2)"
  /\ DOMAIN cache = WarmPaths \ {<<"repo", 1>>}
  /\ \A p \in DOMAIN cache : cache[p].last_used = p[2]

(***************************************************************************)
(* The conflict checks of git_delete_branch and git_remove_worktree         *)
(***************************************************************************)
\* The step is a git_delete_branch call, with a name the validator accepts, on
\* a branch of the repository at repo_path that has commits HEAD does not reach.
DeletesUnmerged ==
  /\ last'.op = "git_delete_branch"
  /\ validate_git_ref(last'.args.branch) = "ok"
  /\ LET opened == open_repo_at(repos, last'.args.repo_path)
         h == opened.val.v
     IN /\ opened.ok
        /\ last'.args.branch \in DOMAIN repos[h.id].heads
        /\ RepoHead(repos, h).ok
        /\ repos[h.id].heads[last'.args.branch] > RepoHead(repos, h).val.target

\* The step is a git_remove_worktree call on a linked worktree that has a
\* status entry.
RemovesDirty ==
  /\ last'.op = "git_remove_worktree"
  /\ LET opened == open_repo(repos, last'.args.worktree_path)
     IN /\ opened.ok
        /\ opened.val.v.wt # 0
        /\ StatusesOf(repos, opened.val.v) # <<>>

Forced == UnwrapOrFalse(last'.args.force)

\* The call failed with the error before any native call that changes the
\* repository, and changed nothing.
BlockedWith(err) ==
  /\ last'.result = Err(err)
  /\ \A i \in 1..Len(last'.native) : last'.native[i] \notin {"delete", "prune"}
  /\ repos' = repos

MutatingOps ==
  {"git_create_branch", "git_delete_branch", "git_reset_hard", "git_create_worktree",
   "git_remove_worktree"}

\* C26: a call of git_create_branch, git_delete_branch, git_reset_hard,
\* git_create_worktree or git_remove_worktree, whether it succeeds or fails,
\* leaves the entries of the cache and the last_used of each as they were (and
\* reads no clock); unless a ref argument is invalid, its first native call
\* opens the repository anew.
C26_MutatingOpsBypassCache ==
  [][ last'.op \in MutatingOps =>
        /\ cache' = cache
        /\ now' = now
        /\ IF InvalidRefArgs(last') # {} THEN last'.native = <<>>
           ELSE /\ last'.native # <<>>
                /\ last'.native[1] \in {"open", "discover"} ]_vars

\* git_reset_hard has moved the branch m of repository 1 to the commit of f/x
\* while the cache holds repository 1 and repository 2 with the last_used of
\* the queries that opened them.
C26_Witness ==
  /\ last.op = "git_reset_hard"
  /\ last.result.ok
  /\ repos[1].heads[BrMain] = 2
  /\ DOMAIN cache = {<<"repo", 1>>, <<"repo", 2>>}
  /\ cache[<<"repo", 1>>].last_used = 1
  /\ cache[<<"repo", 2>>].last_used = 2
  /\ now = 2

(***************************************************************************)
(* Which queries go through RepoCache                                       *)
(***************************************************************************)
CachedQueryOps ==
  {"git_current_branch", "git_default_branch", "git_current_commit", "git_branch_exists"}

UncachedQueryOps == {"git_repo_root", "git_status", "git_is_repo"}

\* The call read the clock and the cache holds, under the canonical form of
\* the path of the call, an entry used at that instant.
EntryRefreshed ==
  /\ now' > now
  /\ RequestedKey.ok
  /\ RequestedKey.val.v \in DOMAIN cache'
  /\ cache'[RequestedKey.val.v].last_used = now'

\* C27, as stated: after a successful call of any of the seven queries on a
\* path the cache holds an entry for the canonical form of the path, with
\* last_used refreshed by the call.
C27_EveryQueryThroughCache ==
  [][ (last'.op \in CachedQueryOps \cup UncachedQueryOps /\ last'.result.ok) =>
        EntryRefreshed ]_vars

\* C27, amended: this holds of git_current_branch, git_default_branch,
\* git_current_commit and git_branch_exists; a call of git_repo_root,
\* git_status or git_is_repo opens the repository itself and leaves the cache,
\* and the last_used of every entry, as they were, whether it succeeds or not.
C27_FourQueriesThroughCache ==
  [][ /\ (last'.op \in CachedQueryOps /\ last'.result.ok) => EntryRefreshed
      /\ last'.op \in UncachedQueryOps =>
           /\ cache' = cache
           /\ now' = now
           /\ last'.native # <<>>
           /\ last'.native[1] \in {"open", "discover"} ]_vars

\* git_status has listed the two changed files of repository 1 while the cache
\* holds repository 2 only, opened by a query one second after the start.
C27_Witness ==
  /\ last.op = "git_status"
  /\ last.args.repo_path = <<"repo", 1>>
  /\ last.result.ok
  /\ Len(last.result.val.v) = 2
  /\ DOMAIN cache = {<<"repo", 2>>}
  /\ cache[<<"repo", 2>>].last_used = 1

(***************************************************************************)
(* A hit on a full cache                                                    *)
(***************************************************************************)
\* The step is a get_or_open call, for a path that is cached, on a cache that
\* holds REPO_CACHE_MAX_SIZE entries, none of them stale at that instant.
HitOnFullCache ==
  /\ now' > now
  /\ Cardinality(DOMAIN cache) = REPO_CACHE_MAX_SIZE
  /\ Fresh = DOMAIN cache
  /\ RequestedKey.ok
  /\ RequestedKey.val.v \in DOMAIN cache

\* The entries with the oldest last_used.
Oldest == {p \in DOMAIN cache : \A q \in DOMAIN cache : cache[p].last_used <= cache[q].last_used}

\* C29: the capacity loop runs on a hit too: a get_or_open call for a cached
\* path on a cache of REPO_CACHE_MAX_SIZE entries that are not stale removes
\* an entry with the oldest last_used first; if that was another path, the call
\* is a hit and leaves REPO_CACHE_MAX_SIZE - 1 entries; if it was the requested
\* path, the repository is opened again and inserted, and the cache is full.
C29_HitOnFullCacheEvictsOldest ==
  [][ HitOnFullCache =>
        LET key == RequestedKey.val.v
        IN /\ last'.result.ok
           /\ cache'[key].last_used = now'
           /\ \E k \in Oldest :
                /\ DOMAIN cache' = (DOMAIN cache \ {k}) \cup {key}
                /\ \A p \in DOMAIN cache' \ {key} : cache'[p] = cache[p]
                /\ IF k = key
                   THEN /\ last'.native = <<"Repository::open">>
                        /\ Cardinality(DOMAIN cache') = REPO_CACHE_MAX_SIZE
                   ELSE /\ last'.native = <<>>
                        /\ cache'[key].repo = cache[key].repo
                        /\ Cardinality(DOMAIN cache') = REPO_CACHE_MAX_SIZE - 1 ]_vars

\* One second after the cache was filled git_current_branch was called on
\* repository 2: a hit, and repository 1, the oldest entry, is gone.
C29_Witness ==
  /\ now = REPO_CACHE_MAX_SIZE + 1
  /\ last.result.ok
  /\ last.native = <<>>
  /\ DOMAIN cache = WarmPaths \ {<<"repo", 1>>}
  /\ cache[<<"repo", 2>>].last_used = now
  /\ Cardinality(DOMAIN cache) = REPO_CACHE_MAX_SIZE - 1

(***************************************************************************)
(* add_watch and the registry lock                                          *)
(***************************************************************************)
\* Call k is between its two locked blocks: it spawns the worker or creates
\* and registers a native watcher.
Registering(k) == calls[k].pc \in {"spawn", "watcher", "git"}

\* C25: add_watch holds the registry lock in its two blocks only, to mint the
\* id and to insert the entry: while it spawns the worker and creates and
\* registers its watchers it does not hold the lock (a step that starts the
\* worker or registers a watcher is taken without it), so the lock is free,
\* or held by another call, for the whole registration.
C25_NoLockWhileRegistering ==
  /\ [](\A k \in AddCalls :
          /\ Registering(k) => registry.holder # k
          /\ registry.holder = k => calls[k].pc \in {"mint_locked", "insert_locked"})
  /\ [][ \A k \in AddCalls :
           /\ (calls'[k].watchers > calls[k].watchers \/ workers'[k] # workers[k]) =>
                 registry.holder # k /\ registry'.holder # k
           /\ (registry'.holder = k /\ registry.holder # k) =>
                 calls[k].pc \in {"idle", "insert"} /\ registry.holder = 0
           /\ (calls[k].pc = "insert_locked" /\ calls'[k] # calls[k]) =>
                 /\ registry'.holder = 0
                 /\ calls[k].watch_id \in DOMAIN registry'.entries ]_vars

\* Call 1 has registered its worktree watcher and is about to register a
\* watcher of the git directory; call 2 holds the lock meanwhile, and
\* remove_all has run since call 1 minted its id.
C25_Witness ==
  /\ calls[1].pc = "git"
  /\ calls[1].watchers = 1
  /\ registry.holder = 2
  /\ 1 \in history.swept

(***************************************************************************)
(* Starting the RPC server more than once                                   *)
(***************************************************************************)
\* Call k returns in this step.
StartReturning(k) ==
  server.starts[k].pc # "returned" /\ server'.starts[k].pc = "returned"

\* A call has returned the socket path.
StartSucceeded ==
  \E j \in StartCalls : server.starts[j].result = Some(Ok(SocketPath))

\* C28: under any interleaving of start_git_rpc_server and
\* ensure_git_rpc_server calls at most one accept loop is started, a call that
\* returns after one call has succeeded returns the same socket path and no
\* error, and the socket file at the published path is the one bound by the
\* listener whose accept loop runs.
C28_StartIsSafeToRepeatAndRace ==
  /\ [](Cardinality(server.loops) <= 1)
  /\ [](\A k \in server.loops : server.file = k /\ k \in server.bound)
  /\ [][ \A k \in StartCalls :
           (StartReturning(k) /\ StartSucceeded) =>
              server'.starts[k].result = Some(Ok(SocketPath)) ]_vars

(***************************************************************************)
(* The accumulators between windows                                         *)
(***************************************************************************)
\* C31: every flush leaves pending_paths and pending_kinds empty, so both are
\* empty whenever the worker blocks in recv() for the first event of a window;
\* a payload holds only paths and kinds of the events received since the flush
\* before it, and the payloads of a watch are emitted one after another, in
\* the order in which their windows were closed.
C31_FlushClearsAccumulators ==
  /\ [](wpc \in {"none", "recv", "done"} => pending_paths = {} /\ pending_kinds = {})
  /\ [][ /\ IsFlush =>
              /\ pending_paths' = {}
              /\ pending_kinds' = {}
              /\ emitted' # emitted =>
                   /\ emitted'[Len(emitted')].paths \subseteq window.paths
                   /\ emitted'[Len(emitted')].kinds \subseteq window.kinds
         /\ \/ emitted' = emitted
            \/ /\ Len(emitted') = Len(emitted) + 1
               /\ SubSeq(emitted', 1, Len(emitted)) = emitted ]_vars

\* Two windows have been closed, the first with a change of a.txt, the second
\* with the creation of src/b.rs: the second payload has nothing of the first,
\* and the worker waits for the next window with both sets empty.
C31_Witness ==
  /\ wpc = "recv"
  /\ Len(emitted) = 2
  /\ emitted[1].paths = {<<"a.txt">>}
  /\ emitted[1].kinds = {"modify"}
  /\ emitted[2].paths = {<<"src", "b.rs">>}
  /\ emitted[2].kinds = {"create"}
  /\ pending_paths = {}
  /\ pending_kinds = {}

(***************************************************************************)
(* A watch whose worktree root lies beneath a directory with an ignored    *)
(* name, next to one whose root does not (watch.rs:110-142, 398-413).      *)
(***************************************************************************)
WtBeneath == <<"build", "w">>

BeneathRequests ==
  {[path |-> root, repo_root |-> None, debounce_ms |-> None, watch_git |-> g] :
     root \in {WtBeneath, WtHome}, g \in {None, Some(FALSE)}}

\* What the watchers of a watch report: paths beneath the watched root.
BeneathRelative ==
  {<<"a.txt">>, <<"src", "target", "o">>, <<".git", "HEAD">>, <<".git", "objects", "ab">>}

BeneathEvents(root) ==
  {[kind |-> kind, paths |-> <<root \o relative>>] :
     kind \in {"Modify"}, relative \in BeneathRelative}

InitBeneath == RefIdle /\ GitInit /\ RpcIdle /\ WatchIdle

NextBeneath ==
  \/ \E request \in BeneathRequests :
       add_watch(request) /\ UNCHANGED <<refVars, gitVars, rpcVars>>
  \/ \E event \in BeneathEvents(config.filter.worktree_path) :
       Notify(event) /\ UNCHANGED <<refVars, gitVars, rpcVars>>
  \/ Recv /\ UNCHANGED <<refVars, gitVars, rpcVars>>
  \/ Tick /\ UNCHANGED <<refVars, gitVars, rpcVars>>
  \/ RecvInWindow /\ UNCHANGED <<refVars, gitVars, rpcVars>>
  \/ Timeout /\ UNCHANGED <<refVars, gitVars, rpcVars>>
  \/ remove_watch /\ UNCHANGED <<refVars, gitVars, rpcVars>>
  \/ RecvDisconnected /\ UNCHANGED <<refVars, gitVars, rpcVars>>
  \/ Disconnected /\ UNCHANGED <<refVars, gitVars, rpcVars>>

SpecBeneath == InitBeneath /\ [][NextBeneath]_vars

\* Some component of the absolute path is an ignored name.
NamesIgnored(path) == \E i \in 1..Len(path) : path[i] \in DEFAULT_IGNORED_DIRS

\* The path lies in the git metadata directory the filter watches.
InGitDir(path, filter) ==
  filter.git_dir # None /\ StartsWith(path, Unwrap(filter.git_dir))

\* The paths an emitted event may show for a file of the git directory.
ShownGitPaths == {<<".git", "HEAD">>}

\* C32: the ignored-name test runs over every component of the absolute path of
\* an event, the ancestors of the worktree root included, and not over the path
\* relative to the root: a received path outside the git metadata directory is
\* kept exactly when no component of it is an ignored name (and the set has
\* room), so a watch whose root lies beneath a directory with an ignored name
\* keeps and emits no worktree file at all, only allowed git metadata paths.
C32_IgnoredNamesTestedOnAbsolutePath ==
  /\ [][ (IsReceive /\ Cardinality(pending_paths) < MAX_PENDING_PATHS) =>
           \A i \in 1..Len(Head(queue).paths) :
             LET path == Head(queue).paths[i]
                 shown == format_event_path(path, config.filter.worktree_path,
                                            config.filter.git_dir)
             IN ~InGitDir(path, config.filter) =>
                  /\ NamesIgnored(path) => (shown \in pending_paths' <=> shown \in pending_paths)
                  /\ ~NamesIgnored(path) => shown \in pending_paths' ]_vars
  /\ [](NamesIgnored(config.filter.worktree_path) =>
          /\ pending_paths \subseteq ShownGitPaths
          /\ \A n \in 1..Len(emitted) : emitted[n].paths \subseteq ShownGitPaths
          /\ config.filter.git_dir = None => pending_paths = {} /\ emitted = <<>>)

\* The watch of /build/w has received the change of a.txt and the change of
\* .git/HEAD in one window and has emitted the event: it shows .git/HEAD alone.
C32_Witness ==
  /\ config.filter.worktree_path = WtBeneath
  /\ config.filter.git_dir = Some(WtBeneath \o <<".git">>)
  /\ window.n = 2
  /\ wpc = "recv"
  /\ Len(emitted) = 1
  /\ emitted[1].paths = {<<".git", "HEAD">>}
  /\ emitted[1].kinds = {"modify"}

(***************************************************************************)
(* The shape of the responses the server writes (git_rpc.rs:25-31,         *)
(* 180-188, 300-313)                                                       *)
(***************************************************************************)
\* The payloads that reached the stream of a connection in full.
WrittenPayloads(c) ==
  {conns[c].out[i].v : i \in {k \in 1..Len(conns[c].out) : conns[c].out[k].t = "payload"}}

\* git_create_branch of a new branch at HEAD, with its keys in camelCase.
LineCreateBranch ==
  Request("2", "git_create_branch",
          JObj([repoPath |-> RepoOne, branch |-> JStr(BrNew), startPoint |-> JNull]))

\* C33: every response the server writes has ok = true exactly when its error
\* is null, and a null result whenever ok = false; the response built in
\* memory has ok exactly when it has no error and no result when it is not ok.
\* A response with ok = true may have a null result too (C33_Witness), so it is
\* ok and error that tell success, not result.
C33_OkExactlyWhenNoError ==
  \A c \in Conns :
    /\ \A payload \in WrittenPayloads(c) :
         /\ payload.t = "obj"
         /\ payload.v.ok \in {JBool(TRUE), JBool(FALSE)}
         /\ payload.v.ok = JBool(TRUE) <=> payload.v.error = JNull
         /\ payload.v.ok = JBool(FALSE) => payload.v.result = JNull
    /\ conns[c].response # None =>
         LET response == Unwrap(conns[c].response)
         IN /\ response.ok <=> response.error = None
            /\ ~response.ok => response.result = None
            /\ response.ok => response.result # None

\* git_create_branch was answered after it created the branch: the response
\* on the stream has ok = true, a null error and a null result.
C33_Witness ==
  \E c \in Conns :
    /\ conns[c].pc = "closed"
    /\ conns[c].answered = Some(LineCreateBranch.v)
    /\ conns[c].dispatched = "git_create_branch"
    /\ BrNew \in DOMAIN repos[1].heads
    /\ conns[c].out = <<Chunk(JObj([id |-> JStr("2"), ok |-> JBool(TRUE),
                                    result |-> JNull, error |-> JNull])), Newline>>

====
